---- MODULE Spec2Model ----
(***************************************************************************)
(* Model of the collecting-dots dashboard API routes: the demo workflow    *)
(* (assistant-action, owner-action), the demos listing cache and the       *)
(* rejected-demo cleanup sweep.  Storage (Dropbox), the key-value cache    *)
(* (Redis) and the mail API are external; every call to them can fail.     *)
(* One action of the model is one whole request handler; the external      *)
(* calls a handler issued are recorded, in order, in last.calls.  The      *)
(* artist and event registries (one JSON array in one Dropbox file each),  *)
(* the demo-submission flag and the Dropbox access token kept in Redis     *)
(* are part of the state.                                                  *)
(***************************************************************************)
EXTENDS Integers, Sequences, FiniteSets, TLC

VARIABLES
    files,          \* Dropbox: entry name -> [at, mtime]
    ext,            \* extension of each demo's audio file name
    demosCache,     \* Redis key demos:cache : << >> or << DemoCache >>
    now,            \* Date.now(), in milliseconds
    emailEnv,       \* EmailService: [configured, accessToken]
    failures,       \* number of external calls that have failed so far
    last,           \* the last request: its input, response and calls
    regKind,        \* the registry the requests address: "artists" or "events"
    registry,       \* its Dropbox file: Gone or the array it holds
    inflight,       \* registry requests between their download and upload
    flag,           \* Redis key settings:demo_submission_enabled
    tokenCache      \* Redis key dropbox:access_token

vars == <<files, ext, demosCache, now, emailEnv, failures, last,
          regKind, registry, inflight, flag, tokenCache>>

----------------------------------------------------------------------------
(* Bounds of the model *)

\* largest number of clock ticks
MaxTicks == 1

\* largest number of external calls that fail
MaxFailures == 1

----------------------------------------------------------------------------
(* Names and constants of the program *)

Null == "null"
Gone == "gone"
NoTime == -1

\* demo ids stored in the sidecars; "a1" is a substring of "a12"
Demos == {"a1", "a12"}

\* ids a caller can put in the URL
RequestIds == Demos

Statuses == {"submitted", "assistant_liked", "rejected", "owner_liked"}

StatusOrder == <<"submitted", "assistant_liked", "rejected", "owner_liked">>

STATUS_FOLDERS ==
    [submitted       |-> "/demos/submitted",
     assistant_liked |-> "/demos/assistant_liked",
     rejected        |-> "/demos/rejected",
     owner_liked     |-> "/demos/owner_liked"]

Folders == {STATUS_FOLDERS[s] : s \in Statuses}

REJECTED_FOLDER_PATH == "/demos/rejected"

CLEANUP_INTERVAL_MS == 24 * 60 * 60 * 1000

MAX_ERROR_DETAILS == 20

\* CACHE_TTL.DEMOS, in seconds
CACHE_TTL_DEMOS == 15 * 60

\* CACHE_DURATION of GET /api/demos, in milliseconds
CACHE_DURATION == 15 * 60 * 1000

\* the clock advances in steps of ten minutes
TICK_MS == 10 * 60 * 1000

\* entries of the storage: the audio file and the sidecar of each demo, and
\* one sub-folder
AudioOf(d) == <<d, "audio">>
MetaOf(d) == <<d, "meta">>
SubFolder == <<"archive", "folder">>
DemoFiles == {AudioOf(d) : d \in Demos} \cup {MetaOf(d) : d \in Demos}
Names == DemoFiles \cup {SubFolder}

\* entry['.tag']
TagOf(n) == IF n = SubFolder THEN "folder" ELSE "file"

\* file.name.includes(demoId) for the audio file "<title>_<d>.<ext>" of demo d
NameIncludes(d, demoId) ==
    \/ demoId = d
    \/ demoId = "a1" /\ d = "a12"

----------------------------------------------------------------------------
(* Storage *)

\* response.result.entries of dbx.filesListFolder({ path })
ListFolder(fs, folderPath) == {n \in Names : fs[n].at = folderPath}

\* assistant-action accepts .mp3 and .wav in any case
AssistantAudioExt(e) == e \in {"mp3", "wav"}

\* owner-action accepts .mp3 only
OwnerAudioExt(e) == e = "mp3"

AudioExtOk(endpoint, e) ==
    IF endpoint = "assistant" THEN AssistantAudioExt(e) ELSE OwnerAudioExt(e)

\* findDemoInFolder: the results it can give, << >> for null or the pair of
\* entries of the demo found.  files.find answers the first audio file that
\* matches, and the listing can return the entries in any order; a listing
\* that throws is caught and answers null
FindDemoInFolder(fs, endpoint, folderPath, demoId, listOk) ==
    IF ~listOk THEN {<< >>}
    ELSE
      LET entries == ListFolder(fs, folderPath)
          matches == {d \in Demos :
                         /\ AudioOf(d) \in entries
                         /\ TagOf(AudioOf(d)) = "file"
                         /\ AudioExtOk(endpoint, ext[d])
                         /\ NameIncludes(d, demoId)}
      IN IF matches = {} THEN {<< >>}
         ELSE {IF MetaOf(d) \notin entries THEN << >>
               ELSE << [mp3File |-> AudioOf(d), metadataFile |-> MetaOf(d)] >>
               : d \in matches}

\* file.name of an entry
FileName(n) ==
    IF n = SubFolder THEN "archive"
    ELSE IF n[2] = "audio" THEN "track_" \o n[1] \o "." \o ext[n[1]]
    ELSE "track_" \o n[1] \o "." \o ext[n[1]] \o ".metadata.json"

PathOf(folderPath, n) == folderPath \o "/" \o FileName(n)

\* dbx.filesMoveV2({ from_path, to_path }) of one entry; the move is a new
\* revision of the file, so its server_modified becomes the time of the move
MoveFile(fs, n, toFolder) == [fs EXCEPT ![n] = [at |-> toFolder, mtime |-> now]]

----------------------------------------------------------------------------
(* A run of a request handler: the storage and the cache as the handler has *)
(* changed them so far, the external calls it has issued, and how many      *)
(* external calls have failed.                                              *)

NewRun == [files |-> files, cache |-> demosCache, token |-> emailEnv.accessToken,
           calls |-> <<>>, nfail |-> failures]

Call(r, op, a, b, ok) ==
    [r EXCEPT !.calls = Append(@, [op |-> op, a |-> a, b |-> b, ok |-> ok]),
              !.nfail = IF ok THEN @ ELSE @ + 1]

\* the outcomes an external call of run r can have
Oks(r) == IF r.nfail < MaxFailures THEN {TRUE, FALSE} ELSE {TRUE}

\* UNION of F(x) over the outcomes x of an earlier step
Bind(S, F(_)) == UNION {F(x) : x \in S}

Min(S) == CHOOSE x \in S : \A y \in S : x <= y

----------------------------------------------------------------------------
(* Folder digests *)

\* the characters of a file name and of a modification time, one code each;
\* the codes of the names are ordered as the names are
NameCode(n) ==
    (IF n[1] = "a1" THEN 1000 ELSE 2000) + (IF n[2] = "audio" THEN 0 ELSE 100)
    + (IF ext[n[1]] = "mp3" THEN 0 ELSE 1)

TimeCode(t) == t % 65536

\* `${f.name}:${f.server_modified || ''}`
EntryChars(fs, n) ==
    <<NameCode(n), 58>> \o (IF fs[n].mtime = NoTime THEN << >> ELSE <<TimeCode(fs[n].mtime)>>)

\* .sort().join('|') of the entries of a set of files
RECURSIVE JoinSorted(_, _)
JoinSorted(fs, S) ==
    IF S = {} THEN << >>
    ELSE LET n == CHOOSE x \in S : \A y \in S : NameCode(x) <= NameCode(y)
             rest == JoinSorted(fs, S \ {n})
         IN IF rest = << >> THEN EntryChars(fs, n)
            ELSE EntryChars(fs, n) \o <<124>> \o rest

\* hash = ((hash << 5) - hash) + char; hash = hash & hash : on a 32-bit integer
\* kept as its two 16-bit halves << high, low >>
HashStep(h, c) ==
    LET low == 31 * h[2] + c
        high == 31 * h[1] + (low \div 65536)
    IN <<high % 65536, low % 65536>>

RECURSIVE HashChars(_, _)
HashChars(h, cs) ==
    IF cs = << >> THEN h ELSE HashChars(HashStep(h, Head(cs)), Tail(cs))

\* generateFolderHash of the entries of a folder
GenerateFolderHash(fs, folderPath) ==
    HashChars(<<0, 0>>,
              JoinSorted(fs, {n \in ListFolder(fs, folderPath) : TagOf(n) = "file"}))

\* a missing key of folderHashes, and the empty string
HashUndefined == <<-1, -1>>
HashEmpty == <<-2, -2>>

----------------------------------------------------------------------------
(* The demos cache in Redis *)

\* redis.get(CACHE_KEYS.DEMOS): << >> when the key is absent or has expired
RedisGetDemos(c) ==
    IF c.value # << >> /\ now < c.expiresAt THEN c.value ELSE << >>

\* redis.set(CACHE_KEYS.DEMOS, value, { ex: CACHE_TTL.DEMOS })
RedisSetDemos(value) ==
    [value |-> <<value>>, expiresAt |-> now + CACHE_TTL_DEMOS * 1000]

\* redis.del(CACHE_KEYS.DEMOS)
RedisDelDemos == [value |-> << >>, expiresAt |-> 0]

\* cache.demos.findIndex(demo => demo.demo_id === demoId), 0 for -1
FindIndex(demos, demoId) ==
    LET idx == {i \in 1..Len(demos) : demos[i].demo_id = demoId}
    IN IF idx = {} THEN 0 ELSE Min(idx)

\* getDemoStatusFromCache: the outcomes << run, status >>
GetDemoStatusFromCache(r, demoId) ==
    {LET r1 == Call(r, "redis.get", "demos:cache", "", ok)
         cache == RedisGetDemos(r1.cache)
     IN IF ~ok \/ cache = << >> THEN [r |-> r1, status |-> Null]
        ELSE LET i == FindIndex(cache[1].demos, demoId)
             IN [r |-> r1,
                 status |-> IF i = 0 THEN Null ELSE cache[1].demos[i].status]
     : ok \in Oks(r)}

\* the loop of updateDemoStatusInCache over STATUS_FOLDERS, from folder i on:
\* a listing that fails keeps the old hash of the folder, or ''
RECURSIVE RefreshFolderHashes(_, _, _, _)
RefreshFolderHashes(r, old, hashes, i) ==
    IF i > Len(StatusOrder) THEN {[r |-> r, hashes |-> hashes]}
    ELSE
      LET folderPath == STATUS_FOLDERS[StatusOrder[i]]
      IN UNION {
           RefreshFolderHashes(
               Call(r, "list", folderPath, "", ok), old,
               [hashes EXCEPT ![folderPath] =
                   IF ok THEN GenerateFolderHash(r.files, folderPath)
                   ELSE IF old[folderPath] = HashUndefined THEN HashEmpty
                   ELSE old[folderPath]],
               i + 1)
           : ok \in Oks(r)}

\* getDropboxClient: reads the access token; a failed read throws
GetDropboxClient(r) ==
    {[r |-> Call(r, "token", "dropbox:access_token", "", ok), ok |-> ok] : ok \in Oks(r)}

\* a patch that would write the new status into every entry
PatchedAllDemos(demos, demoIndex, newStatus) ==
    [i \in 1..Len(demos) |-> [demos[i] EXCEPT !.status = newStatus]]

\* cache.demos[demoIndex].status = newStatus
PatchedDemos(demos, demoIndex, newStatus) ==
    [demos EXCEPT ![demoIndex].status = newStatus]

\* updateDemoStatusInCache: the runs it can end in; it never throws
UpdateDemoStatusInCache(r, demoId, newStatus) ==
    UNION {
      LET r1 == Call(r, "redis.get", "demos:cache", "", getOk)
          cache == RedisGetDemos(r1.cache)
      IN IF ~getOk \/ cache = << >> THEN {r1}
         ELSE
           LET demoIndex == FindIndex(cache[1].demos, demoId)
           IN IF demoIndex = 0 THEN {r1}
              ELSE
                LET demos == PatchedDemos(cache[1].demos, demoIndex, newStatus)
                IN Bind(GetDropboxClient(r1), LAMBDA c :
                     IF ~c.ok THEN {c.r}
                     ELSE Bind(RefreshFolderHashes(c.r, cache[1].folderHashes,
                                                   [f \in Folders |-> HashUndefined], 1),
                            LAMBDA h :
                              {LET r2 == Call(h.r, "redis.set", "demos:cache", "", setOk)
                               IN IF ~setOk THEN r2
                                  ELSE [r2 EXCEPT !.cache = RedisSetDemos(
                                          [demos |-> demos,
                                           folderHashes |-> h.hashes,
                                           timestamp |-> cache[1].timestamp])]
                               : setOk \in Oks(h.r)}))
      : getOk \in Oks(r)}

----------------------------------------------------------------------------
(* Notification email *)

\* the submitter's address in the sidecar of demo d
EmailOf(d) == d \o "@mail"

\* fetchDemoMetadata: << >> for null, or the parsed sidecar
FetchDemoMetadata(r, folderPath, metadataFile) ==
    Bind(GetDropboxClient(r), LAMBDA c :
      IF ~c.ok THEN {[r |-> c.r, metadata |-> << >>]}
      ELSE {LET r1 == Call(c.r, "download", PathOf(folderPath, metadataFile), "", ok)
            IN IF ok /\ r1.files[metadataFile].at = folderPath
               THEN [r |-> r1,
                     metadata |-> << [demo_id |-> metadataFile[1],
                                      email |-> EmailOf(metadataFile[1])] >>]
               ELSE [r |-> r1, metadata |-> << >>]
            : ok \in Oks(c.r)})

\* a getAccessToken that would never refresh the token
GetAccessTokenKept(r) ==
    {[r |-> [r EXCEPT !.token = TRUE], ok |-> TRUE]}

\* EmailService.getAccessToken: the token in memory, or one token refresh
GetAccessToken(r) ==
    IF r.token THEN {[r |-> r, ok |-> TRUE]}
    ELSE {[r |-> [Call(r, "oauth2.token", "gmail", "", ok) EXCEPT !.token = ok],
           ok |-> ok] : ok \in Oks(r)}

\* the answers of the Gmail send call: 2xx, 401, or another failure
SendAnswers(r) == IF r.nfail < MaxFailures THEN {"ok", "401", "error"} ELSE {"ok"}

\* EmailService.sendEmailViaGmailAPI: the outcomes [r, sent]
SendEmailViaGmailAPI(r, to, template) ==
    Bind(GetAccessToken(r), LAMBDA t :
      IF ~t.ok THEN {[r |-> t.r, sent |-> FALSE]}
      ELSE UNION {
        LET r1 == Call(t.r, "gmail.send", to, template, answer = "ok")
        IN IF answer = "401"
           THEN Bind(GetAccessToken([r1 EXCEPT !.token = FALSE]), LAMBDA u :
                  IF ~u.ok THEN {[r |-> u.r, sent |-> FALSE]}
                  ELSE {[r |-> Call(u.r, "gmail.send", to, template, ok), sent |-> ok]
                        : ok \in Oks(u.r)})
           ELSE {[r |-> r1, sent |-> answer = "ok"]}
        : answer \in SendAnswers(t.r)})

\* sendActionEmail: the outcomes [r, sent, error]
SendActionEmail(r, action, metadata, demoId) ==
    IF ~emailEnv.configured
    THEN {[r |-> r, sent |-> FALSE, error |-> "Email service not configured"]}
    ELSE IF action \in {"like", "reject"}
    THEN {[r |-> s.r, sent |-> s.sent,
           error |-> IF s.sent THEN "" ELSE "Failed to send email"]
          : s \in SendEmailViaGmailAPI(r, metadata.email,
                                       IF action = "like" THEN "liked" ELSE "rejected")}
    ELSE {[r |-> r, sent |-> FALSE, error |-> "No email for this action type"]}

----------------------------------------------------------------------------
(* POST /api/demos/[demo_id]/assistant-action and .../owner-action *)

\* what a request body can hold as its action
BodyActions == {"like", "reject", "undo_reject", "approve"}

NoEmail == << >>

\* the response of a handler, with the run that produced it
Response(r, status, src, dst, newStatus, email) ==
    [r |-> r, status |-> status, src |-> src, dst |-> dst,
     newStatus |-> newStatus, email |-> email]

\* a moveDemoFiles that would move the audio file back when the move of the
\* sidecar fails
MoveDemoFilesPutBack(r, sourceFolderPath, destinationFolderPath, mp3File, metadataFile) ==
    UNION {
      LET r1 == Call(r, "move", PathOf(sourceFolderPath, mp3File),
                     PathOf(destinationFolderPath, mp3File), mp3Ok)
      IN IF ~mp3Ok THEN {[r |-> r1, ok |-> FALSE]}
         ELSE
           LET r2 == [r1 EXCEPT !.files = MoveFile(@, mp3File, destinationFolderPath)]
           IN {LET r3 == Call(r2, "move", PathOf(sourceFolderPath, metadataFile),
                              PathOf(destinationFolderPath, metadataFile), metaOk)
               IN IF ~metaOk
                  THEN [r |-> [Call(r3, "move", PathOf(destinationFolderPath, mp3File),
                                    PathOf(sourceFolderPath, mp3File), TRUE)
                                 EXCEPT !.files = r1.files],
                        ok |-> FALSE]
                  ELSE [r |-> [r3 EXCEPT !.files =
                                  MoveFile(@, metadataFile, destinationFolderPath)],
                        ok |-> TRUE]
               : metaOk \in Oks(r2)}
      : mp3Ok \in Oks(r)}

\* moveDemoFiles: the audio file, then the sidecar; a move that fails throws
MoveDemoFiles(r, sourceFolderPath, destinationFolderPath, mp3File, metadataFile) ==
    UNION {
      LET r1 == Call(r, "move", PathOf(sourceFolderPath, mp3File),
                     PathOf(destinationFolderPath, mp3File), mp3Ok)
      IN IF ~mp3Ok THEN {[r |-> r1, ok |-> FALSE]}
         ELSE
           LET r2 == [r1 EXCEPT !.files = MoveFile(@, mp3File, destinationFolderPath)]
           IN {LET r3 == Call(r2, "move", PathOf(sourceFolderPath, metadataFile),
                              PathOf(destinationFolderPath, metadataFile), metaOk)
               IN IF ~metaOk THEN [r |-> r3, ok |-> FALSE]
                  ELSE [r |-> [r3 EXCEPT !.files =
                                  MoveFile(@, metadataFile, destinationFolderPath)],
                        ok |-> TRUE]
               : metaOk \in Oks(r2)}
      : mp3Ok \in Oks(r)}

\* the switch of assistant-action: the outcomes [r, src, dst, newStatus]
AssistantResolve(r, action, demoId) ==
    CASE action = "like" ->
           {[r |-> r, src |-> STATUS_FOLDERS.submitted,
             dst |-> STATUS_FOLDERS.assistant_liked, newStatus |-> "assistant_liked"]}
      [] action = "reject" ->
           Bind(GetDemoStatusFromCache(r, demoId), LAMBDA c :
             IF c.status = "submitted"
             THEN {[r |-> c.r, src |-> STATUS_FOLDERS.submitted,
                    dst |-> STATUS_FOLDERS.rejected, newStatus |-> "rejected"]}
             ELSE IF c.status = "assistant_liked"
             THEN {[r |-> c.r, src |-> STATUS_FOLDERS.assistant_liked,
                    dst |-> STATUS_FOLDERS.rejected, newStatus |-> "rejected"]}
             ELSE UNION {
                    LET r1 == Call(c.r, "list", STATUS_FOLDERS.submitted, "", listOk)
                    IN {[r |-> r1,
                         src |-> IF demoInSubmitted # << >> THEN STATUS_FOLDERS.submitted
                                 ELSE STATUS_FOLDERS.assistant_liked,
                         dst |-> STATUS_FOLDERS.rejected, newStatus |-> "rejected"]
                        : demoInSubmitted \in
                            FindDemoInFolder(r1.files, "assistant",
                                             STATUS_FOLDERS.submitted, demoId, listOk)}
                    : listOk \in Oks(c.r)})
      [] action = "undo_reject" ->
           {[r |-> r, src |-> STATUS_FOLDERS.rejected,
             dst |-> STATUS_FOLDERS.assistant_liked, newStatus |-> "assistant_liked"]}

\* an email_status that would drop the error
EmailStatusWithoutError(sent, error) ==
    << [notification_sent |-> sent, error |-> Null] >>

\* email_status of the response: { notification_sent: emailStatus.sent,
\* error: emailStatus.error || null }
EmailStatus(sent, error) ==
    << [notification_sent |-> sent, error |-> IF error = "" THEN Null ELSE error] >>

\* the email step of assistant-action, after the move and the cache update
AssistantEmailStep(r, action, demoId, t, metadataFile) ==
    IF action \in {"like", "reject"}
    THEN Bind(FetchDemoMetadata(r, t.dst, metadataFile), LAMBDA md :
           IF md.metadata # << >>
           THEN {Response(e.r, 200, t.src, t.dst, t.newStatus,
                          EmailStatus(e.sent, e.error))
                 : e \in SendActionEmail(md.r, action, md.metadata[1], demoId)}
           ELSE {Response(md.r, 200, t.src, t.dst, t.newStatus,
                          EmailStatus(FALSE, "Could not fetch demo metadata"))})
    ELSE {Response(r, 200, t.src, t.dst, t.newStatus,
                   EmailStatus(FALSE, "Email not attempted"))}

\* POST of assistant-action, once authenticated: the responses it can give
AssistantPOST(demoId, action) ==
    IF action \notin {"like", "reject", "undo_reject"}
    THEN {Response(NewRun, 400, Null, Null, Null, NoEmail)}
    ELSE Bind(GetDropboxClient(NewRun), LAMBDA c :
      IF ~c.ok THEN {Response(c.r, 500, Null, Null, Null, NoEmail)}
      ELSE Bind(AssistantResolve(c.r, action, demoId), LAMBDA t :
        UNION {
          LET r1 == Call(t.r, "list", t.src, "", listOk)
          IN Bind(FindDemoInFolder(r1.files, "assistant", t.src, demoId, listOk),
               LAMBDA demoFiles :
                 IF demoFiles = << >>
                 THEN {Response(r1, 404, t.src, t.dst, t.newStatus, NoEmail)}
                 ELSE Bind(MoveDemoFiles(r1, t.src, t.dst, demoFiles[1].mp3File,
                                         demoFiles[1].metadataFile), LAMBDA m :
                        IF ~m.ok
                        THEN {Response(m.r, 500, t.src, t.dst, t.newStatus, NoEmail)}
                        ELSE Bind(UpdateDemoStatusInCache(m.r, demoId, t.newStatus),
                               LAMBDA r3 :
                                 AssistantEmailStep(r3, action, demoId, t,
                                                    demoFiles[1].metadataFile))))
          : listOk \in Oks(t.r)}))

\* the switch of owner-action: the outcomes [r, src, dst, newStatus]
OwnerResolve(r, action, demoId) ==
    CASE action = "approve" ->
           {[r |-> r, src |-> STATUS_FOLDERS.assistant_liked,
             dst |-> STATUS_FOLDERS.owner_liked, newStatus |-> "owner_liked"]}
      [] action = "like" ->
           {[r |-> r, src |-> STATUS_FOLDERS.submitted,
             dst |-> STATUS_FOLDERS.assistant_liked, newStatus |-> "assistant_liked"]}
      [] action = "reject" ->
           Bind(GetDemoStatusFromCache(r, demoId), LAMBDA c :
             IF c.status = "assistant_liked"
             THEN {[r |-> c.r, src |-> STATUS_FOLDERS.assistant_liked,
                    dst |-> STATUS_FOLDERS.rejected, newStatus |-> "rejected"]}
             ELSE IF c.status = "submitted"
             THEN {[r |-> c.r, src |-> STATUS_FOLDERS.submitted,
                    dst |-> STATUS_FOLDERS.rejected, newStatus |-> "rejected"]}
             ELSE UNION {
                    LET r1 == Call(c.r, "list", STATUS_FOLDERS.assistant_liked, "", listOk)
                    IN {[r |-> r1,
                         src |-> IF demoInAssistantLiked # << >>
                                 THEN STATUS_FOLDERS.assistant_liked
                                 ELSE STATUS_FOLDERS.submitted,
                         dst |-> STATUS_FOLDERS.rejected, newStatus |-> "rejected"]
                        : demoInAssistantLiked \in
                            FindDemoInFolder(r1.files, "owner",
                                             STATUS_FOLDERS.assistant_liked, demoId, listOk)}
                    : listOk \in Oks(c.r)})
      [] action = "undo_reject" ->
           {[r |-> r, src |-> STATUS_FOLDERS.rejected,
             dst |-> STATUS_FOLDERS.assistant_liked, newStatus |-> "assistant_liked"]}

\* POST of owner-action, once authenticated: the responses it can give; it
\* has no email step
OwnerPOST(demoId, action) ==
    IF action \notin {"approve", "reject", "undo_reject", "like"}
    THEN {Response(NewRun, 400, Null, Null, Null, NoEmail)}
    ELSE Bind(GetDropboxClient(NewRun), LAMBDA c :
      IF ~c.ok THEN {Response(c.r, 500, Null, Null, Null, NoEmail)}
      ELSE Bind(OwnerResolve(c.r, action, demoId), LAMBDA t :
        UNION {
          LET r1 == Call(t.r, "list", t.src, "", listOk)
          IN Bind(FindDemoInFolder(r1.files, "owner", t.src, demoId, listOk),
               LAMBDA demoFiles :
                 IF demoFiles = << >>
                 THEN {Response(r1, 404, t.src, t.dst, t.newStatus, NoEmail)}
                 ELSE Bind(MoveDemoFiles(r1, t.src, t.dst, demoFiles[1].mp3File,
                                         demoFiles[1].metadataFile), LAMBDA m :
                        IF ~m.ok
                        THEN {Response(m.r, 500, t.src, t.dst, t.newStatus, NoEmail)}
                        ELSE {Response(r3, 200, t.src, t.dst, t.newStatus, NoEmail)
                              : r3 \in UpdateDemoStatusInCache(m.r, demoId,
                                                               t.newStatus)}))
          : listOk \in Oks(t.r)}))

----------------------------------------------------------------------------
(* GET /api/demos *)

\* metadata.submitted_at of each demo, as a sortable number
SubmittedAt(d) == IF d = "a1" THEN 1 ELSE 2

\* the demos in the order of their file names
RECURSIVE InNameOrder(_)
InNameOrder(S) ==
    IF S = {} THEN << >>
    ELSE LET d == CHOOSE x \in S : \A y \in S : NameCode(AudioOf(x)) <= NameCode(AudioOf(y))
         IN <<d>> \o InNameOrder(S \ {d})

\* allDemos.sort((a, b) => dateB - dateA): newest first, stable
RECURSIVE SortDemos(_)
SortDemos(ds) ==
    IF ds = << >> THEN << >>
    ELSE LET i == Min({j \in 1..Len(ds) :
                          \A k \in 1..Len(ds) :
                              SubmittedAt(ds[k].demo_id) <= SubmittedAt(ds[j].demo_id)})
         IN <<ds[i]>> \o SortDemos(SubSeq(ds, 1, i - 1) \o SubSeq(ds, i + 1, Len(ds)))

\* a comparison that would take every folder of a cache entry for unchanged
FolderChangedNever(cache, folderPath, folderHash) ==
    cache = << >>

\* !demosCache || demosCache.folderHashes[folderPath] !== folderHash
FolderChanged(cache, folderPath, folderHash) ==
    cache = << >> \/ cache[1].folderHashes[folderPath] # folderHash

\* a handler that would never answer from the cache
UseCacheNever(cache, foldersChanged, cacheExpired) ==
    FALSE

\* demosCache && !foldersChanged && !cacheExpired
UseCache(cache, foldersChanged, cacheExpired) ==
    cache # << >> /\ ~foldersChanged /\ ~cacheExpired

\* the loop of GET over STATUS_FOLDERS that compares the folder hashes, from
\* folder i on: the outcomes [r, hashes, changed]
RECURSIVE CheckFolderHashes(_, _, _, _, _)
CheckFolderHashes(r, cache, hashes, changed, i) ==
    IF i > Len(StatusOrder) THEN {[r |-> r, hashes |-> hashes, changed |-> changed]}
    ELSE
      LET folderPath == STATUS_FOLDERS[StatusOrder[i]]
          folderHash == GenerateFolderHash(r.files, folderPath)
      IN UNION {
           IF ok
           THEN CheckFolderHashes(
                    Call(r, "list", folderPath, "", TRUE), cache,
                    [hashes EXCEPT ![folderPath] = folderHash],
                    changed \/ FolderChanged(cache, folderPath, folderHash),
                    i + 1)
           ELSE CheckFolderHashes(Call(r, "list", folderPath, "", FALSE), cache,
                                  hashes, TRUE, i + 1)
           : ok \in Oks(r)}

\* the loop of fetchDemosFromFolder over the .mp3 files, from the i-th on:
\* a file without sidecar, or whose sidecar cannot be downloaded, is skipped
RECURSIVE FetchEachDemo(_, _, _, _, _, _)
FetchEachDemo(r, mp3Files, i, folderPath, status, demos) ==
    IF i > Len(mp3Files) THEN {[r |-> r, demos |-> demos]}
    ELSE
      LET d == mp3Files[i]
      IN IF ~(r.files[MetaOf(d)].at = folderPath /\ TagOf(MetaOf(d)) = "file")
         THEN FetchEachDemo(r, mp3Files, i + 1, folderPath, status, demos)
         ELSE Bind(GetDropboxClient(r), LAMBDA c :
                IF ~c.ok
                THEN FetchEachDemo(c.r, mp3Files, i + 1, folderPath, status, demos)
                ELSE UNION {
                  LET r1 == Call(c.r, "download", PathOf(folderPath, MetaOf(d)), "", ok)
                  IN IF ~ok
                     THEN FetchEachDemo(r1, mp3Files, i + 1, folderPath, status, demos)
                     ELSE FetchEachDemo(r1, mp3Files, i + 1, folderPath, status,
                                        Append(demos, [demo_id |-> d, status |-> status]))
                  : ok \in Oks(c.r)})

\* one sharing call for the link of each demo fetched
RECURSIVE ShareLinks(_, _, _, _)
ShareLinks(r, demos, i, folderPath) ==
    IF i > Len(demos) THEN r
    ELSE ShareLinks(Call(r, "sharing", PathOf(folderPath, AudioOf(demos[i].demo_id)), "", TRUE),
                    demos, i + 1, folderPath)

\* fetchDemosFromFolder: the outcomes [r, ok, demos]; a listing that fails
\* rejects the promise
FetchDemosFromFolder(r, folderPath, status) ==
    UNION {
      LET r1 == Call(r, "list", folderPath, "", ok)
      IN IF ~ok THEN {[r |-> r1, ok |-> FALSE, demos |-> << >>]}
         ELSE
           LET mp3Files == InNameOrder({d \in Demos :
                               /\ r1.files[AudioOf(d)].at = folderPath
                               /\ TagOf(AudioOf(d)) = "file"
                               /\ ext[d] = "mp3"})
           IN {[r |-> ShareLinks(f.r, f.demos, 1, folderPath), ok |-> TRUE,
                demos |-> f.demos]
               : f \in FetchEachDemo(r1, mp3Files, 1, folderPath, status, << >>)}
      : ok \in Oks(r)}

\* Promise.allSettled over the four folders, from folder i on: the demos of
\* a folder whose fetch was rejected are left out
RECURSIVE FetchAllFolders(_, _, _)
FetchAllFolders(r, allDemos, i) ==
    IF i > Len(StatusOrder) THEN {[r |-> r, demos |-> allDemos]}
    ELSE Bind(FetchDemosFromFolder(r, STATUS_FOLDERS[StatusOrder[i]], StatusOrder[i]),
           LAMBDA f : FetchAllFolders(f.r, IF f.ok THEN allDemos \o f.demos ELSE allDemos,
                                      i + 1))

\* the response of GET /api/demos
GetResponse(r, status, cached, demos) ==
    [r |-> r, status |-> status, cached |-> cached, demos |-> demos]

\* GET of /api/demos, run from r0: the responses it can give
DemosGET(r0) ==
    Bind(GetDropboxClient(r0), LAMBDA c :
      IF ~c.ok THEN {GetResponse(c.r, 500, FALSE, << >>)}
      ELSE UNION {
        LET r1 == Call(c.r, "redis.get", "demos:cache", "", getOk)
            cache == RedisGetDemos(r1.cache)
        IN IF ~getOk THEN {GetResponse(r1, 500, FALSE, << >>)}
           ELSE Bind(CheckFolderHashes(r1, cache, [f \in Folders |-> HashUndefined],
                                       FALSE, 1),
                  LAMBDA h :
                    LET cacheExpired ==
                          cache = << >> \/ now - cache[1].timestamp > CACHE_DURATION
                    IN IF UseCache(cache, h.changed, cacheExpired)
                       THEN {GetResponse(h.r, 200, TRUE, cache[1].demos)}
                       ELSE Bind(FetchAllFolders(h.r, << >>, 1), LAMBDA a :
                              LET allDemos == SortDemos(a.demos)
                              IN {LET r2 == Call(a.r, "redis.set", "demos:cache", "", setOk)
                                  IN IF ~setOk THEN GetResponse(r2, 500, FALSE, << >>)
                                     ELSE GetResponse(
                                            [r2 EXCEPT !.cache = RedisSetDemos(
                                               [demos |-> allDemos,
                                                folderHashes |-> h.hashes,
                                                timestamp |-> now])],
                                            200, FALSE, allDemos)
                                  : setOk \in Oks(a.r)}))
        : getOk \in Oks(c.r)})

----------------------------------------------------------------------------
(* GET /api/cron/cleanup-rejected *)

\* process.env.CRON_SECRET: "" when it is not set
CronSecrets == {"", "s3cr3t"}

\* the Authorization header of a request: Null when it has none
AuthHeaders == {Null, "Bearer s3cr3t", "Bearer ", "s3cr3t"}

\* an authorization that would not test whether the secret is set
IsAuthorizedWithoutSecretCheck(cronSecret, authHeader) ==
    authHeader = "Bearer " \o cronSecret

\* isAuthorizedCronRequest
IsAuthorizedCronRequest(cronSecret, authHeader) ==
    IF cronSecret = "" THEN FALSE
    ELSE authHeader = "Bearer " \o cronSecret

\* entries a listing call returns at most
ListPageSize == 2

\* the entries of a set in the order of the listing: the sub-folder, then the
\* files by name
RECURSIVE InListingOrder(_)
InListingOrder(S) ==
    IF S = {} THEN << >>
    ELSE IF SubFolder \in S THEN <<SubFolder>> \o InListingOrder(S \ {SubFolder})
    ELSE LET n == CHOOSE x \in S : \A y \in S : NameCode(x) <= NameCode(y)
         IN <<n>> \o InListingOrder(S \ {n})

\* the filesListFolderContinue calls of listAllRejectedFiles while has_more,
\* with `left` entries still to come: the outcomes [r, ok]
RECURSIVE ListContinue(_, _)
ListContinue(r, left) ==
    IF left <= 0 THEN {[r |-> r, ok |-> TRUE]}
    ELSE UNION {
           LET r1 == Call(r, "list.continue", REJECTED_FOLDER_PATH, "", ok)
           IN IF ~ok THEN {[r |-> r1, ok |-> FALSE]}
              ELSE ListContinue(r1, left - ListPageSize)
           : ok \in Oks(r)}

\* listAllRejectedFiles: the outcomes [r, ok, entries]; a call that fails throws
ListAllRejectedFiles(r) ==
    Bind(GetDropboxClient(r), LAMBDA c :
      IF ~c.ok THEN {[r |-> c.r, ok |-> FALSE, entries |-> << >>]}
      ELSE
        LET allEntries == InListingOrder(ListFolder(c.r.files, REJECTED_FOLDER_PATH))
        IN UNION {
             LET r1 == Call(c.r, "list", REJECTED_FOLDER_PATH, "", ok)
             IN IF ~ok THEN {[r |-> r1, ok |-> FALSE, entries |-> << >>]}
                ELSE {[r |-> l.r, ok |-> l.ok,
                       entries |-> IF l.ok THEN allEntries ELSE << >>]
                      : l \in ListContinue(r1, Len(allEntries) - ListPageSize)}
             : ok \in Oks(c.r)})

\* a filter that would not test whether server_modified is there
IsStaleWithoutTimeCheck(fs, n, staleThreshold) ==
    fs[n].mtime <= staleThreshold

\* the filter of staleFiles on one file entry
IsStale(fs, n, staleThreshold) ==
    IF fs[n].mtime = NoTime THEN FALSE
    ELSE fs[n].mtime <= staleThreshold

\* an error list that would take the details of every failure
ErrorDetailsUncapped(errors, filePath) ==
    Append(errors, filePath)

\* if (errors.length < MAX_ERROR_DETAILS) errors.push({ path, message })
ErrorDetails(errors, filePath) ==
    IF Len(errors) < MAX_ERROR_DETAILS THEN Append(errors, filePath) ELSE errors

\* the loop over staleFiles from the i-th on: a delete that fails is counted
\* and the loop goes on; the outcomes [r, deleted, failed, errors]
RECURSIVE DeleteStaleFiles(_, _, _, _, _, _)
DeleteStaleFiles(r, staleFiles, i, deleted, failed, errors) ==
    IF i > Len(staleFiles)
    THEN {[r |-> r, deleted |-> deleted, failed |-> failed, errors |-> errors]}
    ELSE
      LET n == staleFiles[i]
          filePath == PathOf(REJECTED_FOLDER_PATH, n)
      IN UNION {
           LET r1 == Call(r, "delete", filePath, "", ok)
           IN IF ok
              THEN DeleteStaleFiles(
                       [r1 EXCEPT !.files[n] = [at |-> Gone, mtime |-> NoTime]],
                       staleFiles, i + 1, deleted + 1, failed, errors)
              ELSE DeleteStaleFiles(
                       r1, staleFiles, i + 1, deleted, failed + 1,
                       ErrorDetails(errors, filePath))
           : ok \in Oks(r)}

\* an invalidation that would not test deleted
InvalidateAfterEverySweep(r, deleted) ==
    {LET r1 == Call(r, "redis.del", "demos:cache", "", ok)
     IN [r |-> IF ok THEN [r1 EXCEPT !.cache = RedisDelDemos] ELSE r1, ok |-> ok]
     : ok \in Oks(r)}

\* if (deleted > 0) await invalidateDemosCache(): the outcomes [r, ok]
InvalidateAfterSweep(r, deleted) ==
    IF deleted > 0
    THEN {LET r1 == Call(r, "redis.del", "demos:cache", "", ok)
          IN [r |-> IF ok THEN [r1 EXCEPT !.cache = RedisDelDemos] ELSE r1, ok |-> ok]
          : ok \in Oks(r)}
    ELSE {[r |-> r, ok |-> TRUE]}

\* a response that would report an error once a delete has failed
SweepResponseErrorOnFailed(r, status, scanned, stale, deleted, failed, errors) ==
    [r |-> r, status |-> IF failed > 0 THEN 500 ELSE status, scanned |-> scanned,
     stale_candidates |-> stale, deleted |-> deleted, failed |-> failed,
     errors |-> errors]

\* the response of the sweep
SweepResponse(r, status, scanned, stale, deleted, failed, errors) ==
    [r |-> r, status |-> status, scanned |-> scanned, stale_candidates |-> stale,
     deleted |-> deleted, failed |-> failed, errors |-> errors]

\* GET of cleanup-rejected, once authorized: the responses it can give
CleanupGET ==
    LET staleThreshold == now - CLEANUP_INTERVAL_MS
    IN Bind(ListAllRejectedFiles(NewRun), LAMBDA l :
         IF ~l.ok THEN {SweepResponse(l.r, 500, 0, 0, 0, 0, << >>)}
         ELSE
           LET fileEntries == SelectSeq(l.entries, LAMBDA n : TagOf(n) = "file")
               scanned == Len(fileEntries)
               staleFiles == SelectSeq(fileEntries,
                                       LAMBDA n : IsStale(l.r.files, n, staleThreshold))
           IN Bind(DeleteStaleFiles(l.r, staleFiles, 1, 0, 0, << >>), LAMBDA d :
                {IF i.ok
                 THEN SweepResponse(i.r, 200, scanned, Len(staleFiles), d.deleted,
                                    d.failed, d.errors)
                 ELSE SweepResponse(i.r, 500, scanned, 0, d.deleted, d.failed,
                                    d.errors)
                 : i \in InvalidateAfterSweep(d.r, d.deleted)}))

----------------------------------------------------------------------------
(* The settings flag and the Dropbox access token, both kept in Redis.  A   *)
(* run of one of these handlers carries the flag, the token cache and the   *)
(* registry file as the handler has changed them so far.                    *)

\* largest number of ticks of the token clock
MaxTokenTicks == 2

\* half the lifetime of a cached token: one tick of the token clock
TOKEN_TICK_MS == 105 * 60 * 1000

\* CACHE_TTL.DROPBOX_TOKEN, in seconds
CACHE_TTL_DROPBOX_TOKEN == 35 * 6 * 60

\* the lifetime getValidAccessToken writes into expiryTime, in milliseconds
TOKEN_LIFETIME_MS == 35 * 6 * 60 * 1000

\* process.env.DROPBOX_ACCESS_TOKEN
ENV_TOKEN == "env_token"

\* data.access_token of a successful refresh exchange
FreshTokens == {"token_1", "token_2"}

DEFAULT_DEMO_SUBMISSION_ENABLED == TRUE

\* a registry file that does not exist
NoFile == [exists |-> FALSE, items |-> << >>]

\* a registry file that holds the array `items`
FileOf(items) == [exists |-> TRUE, items |-> items]

\* the requests that can be under way at once
Clients == {1, 2}

NewKeyRun == [flag |-> flag, tokens |-> tokenCache, file |-> registry,
              calls |-> << >>, nfail |-> failures]

\* redis.get(CACHE_KEYS.DROPBOX_TOKEN): << >> when absent or expired
RedisGetToken(c) ==
    IF c.value # << >> /\ now < c.expiresAt THEN c.value ELSE << >>

\* redis.set(CACHE_KEYS.DROPBOX_TOKEN, value, { ex: CACHE_TTL.DROPBOX_TOKEN })
RedisSetToken(value) ==
    [value |-> <<value>>, expiresAt |-> now + CACHE_TTL_DROPBOX_TOKEN * 1000]

\* a refresh that would return the new token without storing it
StoredTokenNever(r, newToken, ok) ==
    Call(r, "redis.set", "dropbox:access_token", newToken.accessToken, ok)

\* the redis.set of getValidAccessToken
StoredToken(r, newToken, ok) ==
    [Call(r, "redis.set", "dropbox:access_token", newToken.accessToken, ok)
       EXCEPT !.tokens = IF ok THEN RedisSetToken(newToken) ELSE @]

\* getValidAccessToken: the token it returns, or thrown when redis.get fails
GetValidAccessToken(r0) ==
    UNION {
      IF ~getOk
      THEN {[r |-> Call(r0, "redis.get", "dropbox:access_token", "", FALSE),
             thrown |-> TRUE, accessToken |-> ""]}
      ELSE
        LET r1 == Call(r0, "redis.get", "dropbox:access_token", "", TRUE)
            cachedToken == RedisGetToken(r1.tokens)
        IN IF cachedToken # << >> /\ now < cachedToken[1].expiryTime
           THEN {[r |-> r1, thrown |-> FALSE,
                  accessToken |-> cachedToken[1].accessToken]}
           ELSE UNION {
             IF ~refreshOk
             THEN {[r |-> Call(r1, "oauth2/token", "refresh_token", "", FALSE),
                    thrown |-> FALSE, accessToken |-> ENV_TOKEN]}
             ELSE
               LET r2 == Call(r1, "oauth2/token", "refresh_token", "", TRUE)
               IN UNION {
                    LET newToken == [accessToken |-> t,
                                     expiryTime |-> now + TOKEN_LIFETIME_MS]
                    IN {[r |-> StoredToken(r2, newToken, setOk),
                         thrown |-> FALSE,
                         accessToken |-> IF setOk THEN newToken.accessToken
                                         ELSE ENV_TOKEN]
                          : setOk \in Oks(r2)}
                    : t \in FreshTokens}
             : refreshOk \in Oks(r1)}
      : getOk \in Oks(r0)}

\* ARTISTS_FILE_PATH and EVENTS_FILE_PATH
FilePath(kind) ==
    IF kind = "artists" THEN "/artists/artist_urls.json" ELSE "/events/events.json"

\* the outcomes of a call of run r to the storage: "ok", an answer with a
\* status that is not 2xx ("500"), or no answer (fetch throws)
Outcomes(r) == IF r.nfail < MaxFailures THEN {"ok", "500", "throw"} ELSE {"ok"}

\* files/download: status 200 with the array of the file, 409 when the file
\* does not exist
DownloadFile(r, kind) ==
    {IF out # "ok"
     THEN [r |-> Call(r, "download", FilePath(kind), out, FALSE),
           status |-> out, items |-> << >>]
     ELSE IF ~r.file.exists
     THEN [r |-> Call(r, "download", FilePath(kind), "409", TRUE),
           status |-> "409", items |-> << >>]
     ELSE [r |-> Call(r, "download", FilePath(kind), "200", TRUE),
           status |-> "200", items |-> r.file.items]
       : out \in Outcomes(r)}

\* the response of a registry request
RegistryResponse(r, status, n) == [r |-> r, status |-> status, n |-> n]

\* userId of auth(): "" without a session
UserIds == {"", "user_1"}

\* body.enabled of a PATCH: its JSON type and its text
Payloads == {[type |-> "boolean", text |-> "true"],
             [type |-> "boolean", text |-> "false"],
             [type |-> "string", text |-> "false"],
             [type |-> "number", text |-> "0"],
             [type |-> "undefined", text |-> ""]}

\* a read that would take a missing key for false
EnabledOrFalse(enabled) ==
    IF enabled # << >> THEN enabled[1] ELSE FALSE

\* typeof enabled === 'boolean' ? enabled : DEFAULT_DEMO_SUBMISSION_ENABLED
EnabledOrDefault(enabled) ==
    IF enabled # << >> THEN enabled[1] ELSE DEFAULT_DEMO_SUBMISSION_ENABLED

\* getDemoSubmissionEnabled
GetDemoSubmissionEnabled(r0) ==
    {IF ok
     THEN [r |-> Call(r0, "redis.get", "settings:demo_submission_enabled", "", TRUE),
           thrown |-> FALSE, enabled |-> <<EnabledOrDefault(r0.flag)>>]
     ELSE [r |-> Call(r0, "redis.get", "settings:demo_submission_enabled", "", FALSE),
           thrown |-> TRUE, enabled |-> << >>]
       : ok \in Oks(r0)}

\* setDemoSubmissionEnabled: redis.set without an expiry
SetDemoSubmissionEnabled(r0, enabled) ==
    {IF ok
     THEN [r |-> [Call(r0, "redis.set", "settings:demo_submission_enabled", "", TRUE)
                    EXCEPT !.flag = <<enabled>>],
           thrown |-> FALSE, enabled |-> <<enabled>>]
     ELSE [r |-> Call(r0, "redis.set", "settings:demo_submission_enabled", "", FALSE),
           thrown |-> TRUE, enabled |-> << >>]
       : ok \in Oks(r0)}

\* the response of a settings request
SettingsResponse(r, status, enabled) ==
    [r |-> r, status |-> status, enabled |-> enabled]

----------------------------------------------------------------------------
(* The artist and event registries.  A text is the sequence of its pieces,  *)
(* " " being white space; a request body is a record of the fields it has.  *)

\* largest number of records a registry holds before a record is added
MaxRecords == 2

\* a trim that would keep the white space
TrimNothing(t) == t

\* String.prototype.trim
Trim(t) ==
    LET text == {k \in 1 .. Len(t) : t[k] # " "}
    IN IF text = {} THEN << >>
       ELSE SubSeq(t, CHOOSE k \in text : \A j \in text : k <= j,
                      CHOOSE k \in text : \A j \in text : k >= j)

\* the fields a request must have
RequiredFields(kind) ==
    IF kind = "artists"
    THEN {"artist_name", "artist_instagram_username", "artist_soundcloud",
          "artist_spotify", "artist_beatport"}
    ELSE {"event_title", "location", "date", "times", "artists"}

\* the fields an event may have
OptionalFields(kind) ==
    IF kind = "artists" THEN {}
    ELSE {"event_external_url", "event_instagram_post"}

\* !value : the field is undefined or the empty string
Falsy(body, f) == f \notin DOMAIN body \/ body[f] = << >>

\* the record a request stores: every required field trimmed, an optional
\* field trimmed when it has text and left out otherwise
NewRecord(kind, body) ==
    [f \in RequiredFields(kind) \cup
           {g \in OptionalFields(kind) : ~Falsy(body, g) /\ Trim(body[g]) # << >>}
       |-> Trim(body[f])]

\* new URL(text): << >> when it throws
UrlParse(t) ==
    IF Len(t) >= 3 /\ t[1] \in {"http:", "https:", "ftp:"} /\ t[2] = "//"
    THEN <<[protocol |-> t[1], hostname |-> t[3]]>>
    ELSE << >>

\* validateSoundCloudURL, validateSpotifyURL, validateBeatportURL: the host
\* names that include the domain are the domain itself, its sub-domains and
\* the names it is a part of
ValidateURL(url, domain) ==
    LET urlObj == UrlParse(Trim(url))
    IN /\ urlObj # << >>
       /\ urlObj[1].protocol \in {"http:", "https:"}
       /\ urlObj[1].hostname \in {domain, "www." \o domain, "open." \o domain,
                                  domain \o ".example.org"}

\* the URL checks of PUT /api/artists; PUT /api/events has none
UrlsValid(kind, body) ==
    kind = "artists" =>
        /\ ValidateURL(body.artist_soundcloud, "soundcloud.com")
        /\ ValidateURL(body.artist_spotify, "spotify.com")
        /\ ValidateURL(body.artist_beatport, "beatport.com")

\* the index of a request: not given, not a number, or an integer
IndexInputs ==
    {[given |-> FALSE, numeric |-> FALSE, value |-> 0],
     [given |-> TRUE, numeric |-> FALSE, value |-> 0]}
    \cup {[given |-> TRUE, numeric |-> TRUE, value |-> v] : v \in -1 .. MaxRecords}

\* the index of a request that gives none
NoIndex == [given |-> FALSE, numeric |-> FALSE, value |-> 0]

\* parseInt(index, 10): << >> for NaN
ParseInt(index) == IF index.numeric THEN <<index.value>> ELSE << >>

Artist(name, soundcloud) ==
    [artist_name |-> name,
     artist_instagram_username |-> <<"x", " ">>,
     artist_soundcloud |-> soundcloud,
     artist_spotify |-> <<" ", "https:", "//", "open.spotify.com", "/x">>,
     artist_beatport |-> <<"https:", "//", "www.beatport.com", "/x">>]

Event(title, url) ==
    [event_title |-> title,
     location |-> <<"Club">>,
     date |-> <<"2026-01-01", " ">>,
     times |-> <<" ", "21:00">>,
     artists |-> <<"A", " ", "B">>,
     event_external_url |-> url]

\* bodies that pass every check
GoodBodies(kind) ==
    IF kind = "artists"
    THEN {Artist(<<" ", "X", " ">>, <<"https:", "//", "soundcloud.com", "/x", " ">>),
          Artist(<<"Y">>, <<"https:", "//", "soundcloud.com", "/y">>)}
    ELSE {Event(<<" ", "E">>, <<"https:", "//", "e.org", " ">>),
          Event(<<"F">>, <<" ">>)}

\* the bodies of the requests
Bodies(kind) ==
    GoodBodies(kind) \cup
    (IF kind = "artists"
     THEN {Artist(<<"Y">>, <<"ftp:", "//", "soundcloud.com">>),
           Artist(<<" ">>, <<"https:", "//", "soundcloud.com", "/x">>),
           Artist(<< >>, <<"https:", "//", "soundcloud.com", "/x">>),
           [artist_name |-> <<"X">>]}
     ELSE {Event(<<" ">>, << >>),
           Event(<< >>, << >>),
           [event_title |-> <<"E">>, location |-> <<"Club">>]})

\* the body of a request that has none
NoBody == [none |-> << >>]

\* what a handler has worked out when it has downloaded the file: its
\* response (done), or, with status 0, the array it is about to upload
Answered(r, status, n) ==
    [done |-> status # 0, r |-> r, status |-> status, n |-> n, updated |-> << >>]

\* "All fields are required" and "All fields must contain actual text"
FieldsOk(kind, body) ==
    /\ \A f \in RequiredFields(kind) : ~Falsy(body, f)
    /\ \A f \in RequiredFields(kind) : Trim(body[f]) # << >>

\* POST up to its upload: a download that is not answered 200 starts afresh
PostBegin(kind, body) ==
    IF ~FieldsOk(kind, body) THEN {Answered(NewKeyRun, 400, 0)}
    ELSE Bind(GetValidAccessToken(NewKeyRun), LAMBDA t :
           IF t.thrown THEN {Answered(t.r, 500, 0)}
           ELSE {LET existing == IF d.status = "200" THEN d.items ELSE << >>
                 IN [Answered(d.r, 0, Len(existing)) EXCEPT
                       !.updated = Append(existing, NewRecord(kind, body))]
                   : d \in DownloadFile(t.r, kind)})

\* a range check that would let every index pass
IndexInRangeAlways(index, items) == FALSE

\* artistIndex >= artistsData.artists.length
IndexOutOfRange(index, items) == index >= Len(items)

\* the download and the range check of PUT and DELETE
WithEntry(kind, index, r0, Updated(_)) ==
    Bind(GetValidAccessToken(r0), LAMBDA t :
      IF t.thrown THEN {Answered(t.r, 500, 0)}
      ELSE {IF d.status = "throw" THEN Answered(d.r, 500, 0)
            ELSE IF d.status # "200" THEN Answered(d.r, 404, 0)
            ELSE IF IndexOutOfRange(index, d.items)
            THEN Answered(d.r, 400, Len(d.items))
            ELSE [Answered(d.r, 0, Len(d.items)) EXCEPT
                    !.updated = Updated(d.items)]
              : d \in DownloadFile(t.r, kind)})

\* PUT up to its upload: the index is to be given and to parse to an
\* integer that is not negative
PutBegin(kind, index, body) ==
    IF ~index.given \/ ParseInt(index) = << >> \/ ParseInt(index)[1] < 0
    THEN {Answered(NewKeyRun, 400, 0)}
    ELSE IF ~FieldsOk(kind, body) THEN {Answered(NewKeyRun, 400, 0)}
    ELSE IF ~UrlsValid(kind, body) THEN {Answered(NewKeyRun, 400, 0)}
    ELSE WithEntry(kind, ParseInt(index)[1], NewKeyRun,
                   LAMBDA items : [i \in 1 .. Len(items) |->
                                     IF i - 1 = ParseInt(index)[1]
                                     THEN NewRecord(kind, body) ELSE items[i]])

\* a filter that would drop the entry after the index
WithoutNext(items, index) ==
    LET kept == SelectSeq([i \in 1 .. Len(items) |-> <<i - 1, items[i]>>],
                          LAMBDA e : e[1] # index + 1)
    IN [i \in 1 .. Len(kept) |-> kept[i][2]]

\* items.filter((_, i) => i !== index)
Without(items, index) ==
    LET kept == SelectSeq([i \in 1 .. Len(items) |-> <<i - 1, items[i]>>],
                          LAMBDA e : e[1] # index)
    IN [i \in 1 .. Len(kept) |-> kept[i][2]]

\* DELETE up to its upload
DeleteBegin(kind, index) ==
    IF ~index.given \/ ParseInt(index) = << >> \/ ParseInt(index)[1] < 0
    THEN {Answered(NewKeyRun, 400, 0)}
    ELSE WithEntry(kind, ParseInt(index)[1], NewKeyRun,
                   LAMBDA items : Without(items, ParseInt(index)[1]))

\* an upload that would refuse to overwrite a file that does not have the
\* length the handler has downloaded
RegistryUploadIfUnchanged(r, kind, p) ==
    IF Len(r.file.items) # p.n
    THEN {RegistryResponse(Call(r, "upload", FilePath(kind), "409", TRUE), 409, p.n)}
    ELSE {IF out = "ok"
          THEN RegistryResponse(
                   [Call(r, "upload", FilePath(kind), "200", TRUE)
                      EXCEPT !.file = FileOf(p.updated)], 200, p.n)
          ELSE RegistryResponse(Call(r, "upload", FilePath(kind), out, FALSE),
                                500, p.n)
            : out \in Outcomes(r)}

\* files/upload with mode overwrite, and the response
RegistryUpload(r, kind, p) ==
    {IF out = "ok"
     THEN RegistryResponse(
              [Call(r, "upload", FilePath(kind), "200", TRUE)
                 EXCEPT !.file = FileOf(p.updated)], 200, p.n)
     ELSE RegistryResponse(Call(r, "upload", FilePath(kind), out, FALSE), 500, p.n)
       : out \in Outcomes(r)}

----------------------------------------------------------------------------
(* Actions *)

NoRequest == [op |-> "none", demo_id |-> Null, action |-> Null, status |-> 0,
              src |-> Null, dst |-> Null, newStatus |-> Null, email |-> NoEmail,
              cached |-> FALSE, demos |-> << >>,
              scanned |-> 0, stale_candidates |-> 0, deleted |-> 0, failed |-> 0,
              errors |-> << >>, threshold |-> 0,
              secret |-> "", authorization |-> Null,
              userId |-> "", payload |-> [type |-> "undefined", text |-> ""],
              enabled |-> << >>, accessToken |-> "", n |-> 0,
              index |-> NoIndex, body |-> NoBody, client |-> 0,
              calls |-> << >>, nfail |-> 0]

\* a handler's run becomes the state
CommitRun(r) ==
    /\ files' = r.files
    /\ demosCache' = r.cache
    /\ emailEnv' = [emailEnv EXCEPT !.accessToken = r.token]
    /\ failures' = r.nfail
    /\ UNCHANGED <<ext, now, regKind, registry, inflight, flag, tokenCache>>

\* the request of a demo action is recorded in last
Commit(op, demoId, action, o) ==
    /\ CommitRun(o.r)
    /\ last' = [NoRequest EXCEPT !.op = op, !.demo_id = demoId, !.action = action,
                                 !.status = o.status, !.src = o.src, !.dst = o.dst,
                                 !.newStatus = o.newStatus, !.email = o.email,
                                 !.calls = o.r.calls, !.nfail = o.r.nfail - failures]

\* a request without a session is answered 401 before its body is read
AssistantAction ==
    \E authed \in BOOLEAN :
        IF ~authed
        THEN Commit("assistant", Null, Null,
                    Response(NewRun, 401, Null, Null, Null, NoEmail))
        ELSE \E demoId \in RequestIds, action \in BodyActions :
                 \E o \in AssistantPOST(demoId, action) :
                     Commit("assistant", demoId, action, o)

OwnerAction ==
    \E authed \in BOOLEAN :
        IF ~authed
        THEN Commit("owner", Null, Null,
                    Response(NewRun, 401, Null, Null, Null, NoEmail))
        ELSE \E demoId \in RequestIds, action \in BodyActions :
                 \E o \in OwnerPOST(demoId, action) :
                     Commit("owner", demoId, action, o)

GetDemos ==
    \E o \in DemosGET(NewRun) :
        /\ CommitRun(o.r)
        /\ last' = [NoRequest EXCEPT !.op = "get", !.status = o.status,
                                     !.cached = o.cached, !.demos = o.demos,
                                     !.calls = o.r.calls, !.nfail = o.r.nfail - failures]

\* the sweep; a request that is not authorized is answered 401
CleanupRejected ==
    \E cronSecret \in CronSecrets, authHeader \in AuthHeaders :
        IF ~IsAuthorizedCronRequest(cronSecret, authHeader)
        THEN /\ last' = [NoRequest EXCEPT !.op = "sweep", !.status = 401,
                                          !.secret = cronSecret,
                                          !.authorization = authHeader]
             /\ UNCHANGED <<files, ext, demosCache, emailEnv, now, failures,
                            regKind, registry, inflight, flag, tokenCache>>
        ELSE \E o \in CleanupGET :
               /\ CommitRun(o.r)
               /\ last' = [NoRequest EXCEPT
                             !.op = "sweep", !.status = o.status,
                             !.secret = cronSecret,
                             !.authorization = authHeader,
                             !.scanned = o.scanned,
                             !.stale_candidates = o.stale_candidates,
                             !.deleted = o.deleted, !.failed = o.failed,
                             !.errors = o.errors,
                             !.threshold = now - CLEANUP_INTERVAL_MS,
                             !.calls = o.r.calls, !.nfail = o.r.nfail - failures]

\* time passes, up to MaxTicks ticks after `start`
TickFrom(start) ==
    /\ now + TICK_MS <= start + MaxTicks * TICK_MS
    /\ now' = now + TICK_MS
    /\ UNCHANGED <<files, ext, demosCache, emailEnv, failures, last,
                   regKind, registry, inflight, flag, tokenCache>>

Tick == TickFrom(0)

SweepTick == TickFrom(CLEANUP_INTERVAL_MS)


\* a run of a settings or registry handler changes the stores
CommitStores(r) ==
    /\ flag' = r.flag
    /\ tokenCache' = r.tokens
    /\ registry' = r.file
    /\ failures' = r.nfail
    /\ UNCHANGED <<files, ext, demosCache, emailEnv, now, regKind>>

\* GET /api/settings/demo-submission-enabled
SettingsGet ==
    \E userId \in UserIds :
        \E o \in IF userId = ""
                 THEN {SettingsResponse(NewKeyRun, 401, << >>)}
                 ELSE {IF g.thrown THEN SettingsResponse(g.r, 500, << >>)
                       ELSE SettingsResponse(g.r, 200, g.enabled)
                         : g \in GetDemoSubmissionEnabled(NewKeyRun)} :
            /\ CommitStores(o.r)
            /\ UNCHANGED inflight
            /\ last' = [NoRequest EXCEPT !.op = "settings.get", !.status = o.status,
                                         !.userId = userId, !.enabled = o.enabled,
                                         !.calls = o.r.calls,
                                         !.nfail = o.r.nfail - failures]

\* PATCH /api/settings/demo-submission-enabled
SettingsPatch ==
    \E userId \in UserIds, payload \in Payloads :
        \E o \in IF userId = ""
                 THEN {SettingsResponse(NewKeyRun, 401, << >>)}
                 ELSE IF payload.type # "boolean"
                 THEN {SettingsResponse(NewKeyRun, 400, << >>)}
                 ELSE {IF g.thrown THEN SettingsResponse(g.r, 500, << >>)
                       ELSE SettingsResponse(g.r, 200, g.enabled)
                         : g \in SetDemoSubmissionEnabled(NewKeyRun,
                                                          payload.text = "true")} :
            /\ CommitStores(o.r)
            /\ UNCHANGED inflight
            /\ last' = [NoRequest EXCEPT !.op = "settings.patch", !.status = o.status,
                                         !.userId = userId, !.payload = payload,
                                         !.enabled = o.enabled,
                                         !.calls = o.r.calls,
                                         !.nfail = o.r.nfail - failures]

\* GET /api/artists, GET /api/events: the array, empty when there is no file
RegistryList ==
    \E t \in GetValidAccessToken(NewKeyRun) :
        \E o \in IF t.thrown THEN {RegistryResponse(t.r, 500, 0)}
                 ELSE {IF d.status = "200"
                       THEN RegistryResponse(d.r, 200, Len(d.items))
                       ELSE IF d.status = "409" THEN RegistryResponse(d.r, 200, 0)
                       ELSE RegistryResponse(d.r, 500, 0)
                         : d \in DownloadFile(t.r, regKind)} :
            /\ CommitStores(o.r)
            /\ UNCHANGED inflight
            /\ last' = [NoRequest EXCEPT !.op = "registry.get", !.status = o.status,
                                         !.n = o.n, !.accessToken = t.accessToken,
                                         !.calls = o.r.calls,
                                         !.nfail = o.r.nfail - failures]

\* POST, PUT, DELETE /api/artists and /api/events, handled from the first
\* step to the last while no other request is under way: a POST has a body,
\* a PUT an index and a body, a DELETE an index
RegistryRequest ==
    \E method \in {"post", "put", "delete"},
       index \in IndexInputs,
       body \in Bodies(regKind) \cup {NoBody} :
        /\ method = "post" => index = NoIndex /\ Len(registry.items) < MaxRecords
        /\ (method = "delete") = (body = NoBody)
        /\ \E p \in IF method = "post" THEN PostBegin(regKind, body)
                    ELSE IF method = "put" THEN PutBegin(regKind, index, body)
                    ELSE DeleteBegin(regKind, index) :
             \E o \in IF p.done THEN {RegistryResponse(p.r, p.status, p.n)}
                      ELSE RegistryUpload(p.r, regKind, p) :
                /\ CommitStores(o.r)
                /\ UNCHANGED inflight
                /\ last' = [NoRequest EXCEPT !.op = "registry." \o method,
                                             !.status = o.status, !.n = o.n,
                                             !.index = index, !.body = body,
                                             !.calls = o.r.calls,
                                             !.nfail = o.r.nfail - failures]

\* a client's POST runs up to its upload; other requests may run meanwhile
PostDownload(c) ==
    /\ inflight[c].pc # "downloaded"
    /\ Len(registry.items) < MaxRecords
    /\ \E body \in GoodBodies(regKind) :
         \E p \in PostBegin(regKind, body) :
            /\ CommitStores(p.r)
            /\ IF p.done
               THEN /\ inflight' = [inflight EXCEPT ![c] =
                                      [pc |-> "answered", body |-> body,
                                       n |-> p.n, status |-> p.status]]
                    /\ last' = [NoRequest EXCEPT !.op = "registry.post",
                                   !.status = p.status, !.n = p.n, !.body = body,
                                   !.client = c]
               ELSE /\ inflight' = [inflight EXCEPT ![c] =
                                      [pc |-> "downloaded", body |-> body,
                                       n |-> p.n, updated |-> p.updated]]
                    /\ UNCHANGED last

\* the client's POST uploads its array and answers
PostUpload(c) ==
    /\ inflight[c].pc = "downloaded"
    /\ \E o \in RegistryUpload(NewKeyRun, regKind, inflight[c]) :
          /\ CommitStores(o.r)
          /\ inflight' = [inflight EXCEPT ![c] =
                            [pc |-> "answered", body |-> inflight[c].body,
                             n |-> o.n, status |-> o.status]]
          /\ last' = [NoRequest EXCEPT !.op = "registry.post",
                         !.status = o.status, !.n = o.n,
                         !.body = inflight[c].body, !.client = c,
                         !.calls = o.r.calls]

\* the token clock ticks, up to MaxTokenTicks times
TokenTick ==
    /\ now + TOKEN_TICK_MS <= MaxTokenTicks * TOKEN_TICK_MS
    /\ now' = now + TOKEN_TICK_MS
    /\ UNCHANGED <<files, ext, demosCache, emailEnv, failures, last,
                   regKind, registry, inflight, flag, tokenCache>>

\* a move that would not ask where the file is
MoveAppliesAnywhere(fs, n, fromFolder) == TRUE

\* filesMoveV2 answers path/not_found unless the file is at from_path
MoveApplies(fs, n, fromFolder) == fs[n].at = fromFolder

\* what a client's demo action leaves when it has answered
ActionAnswered(c, status, moved) ==
    /\ inflight' = [inflight EXCEPT ![c] =
                      [pc |-> "answered", demo_id |-> inflight[c].demo_id,
                       status |-> status, dst |-> inflight[c].dst,
                       moved |-> moved]]
    /\ last' = [NoRequest EXCEPT !.op = inflight[c].endpoint,
                                 !.demo_id = inflight[c].demo_id,
                                 !.action = inflight[c].action,
                                 !.status = status, !.src = inflight[c].src,
                                 !.dst = inflight[c].dst,
                                 !.newStatus = inflight[c].newStatus,
                                 !.client = c]

\* a client's demo action runs up to its first move: it resolves the folders
\* and finds the pair in the source folder; other requests may run meanwhile
ActionFind(c) ==
    /\ inflight[c].pc = "idle"
    /\ \E endpoint \in {"assistant", "owner"}, demoId \in RequestIds,
          action \in BodyActions :
         /\ endpoint = "assistant" => action # "approve"
         /\ \E c0 \in GetDropboxClient(NewRun) :
              /\ c0.ok
              /\ \E t \in IF endpoint = "assistant"
                          THEN AssistantResolve(c0.r, action, demoId)
                          ELSE OwnerResolve(c0.r, action, demoId) :
                   \E demoFiles \in FindDemoInFolder(files, endpoint, t.src,
                                                     demoId, TRUE) :
                      LET request == [pc |-> "found", endpoint |-> endpoint,
                                      demo_id |-> demoId, action |-> action,
                                      src |-> t.src, dst |-> t.dst,
                                      newStatus |-> t.newStatus]
                      IN IF demoFiles = << >>
                         THEN /\ inflight' = [inflight EXCEPT ![c] =
                                   [pc |-> "answered", demo_id |-> demoId,
                                    status |-> 404, dst |-> t.dst, moved |-> Null]]
                              /\ last' = [NoRequest EXCEPT
                                            !.op = endpoint, !.demo_id = demoId,
                                            !.action = action, !.status = 404,
                                            !.src = t.src, !.dst = t.dst,
                                            !.newStatus = t.newStatus,
                                            !.client = c]
                         ELSE /\ inflight' = [inflight EXCEPT ![c] =
                                   [pc |-> "found", endpoint |-> endpoint,
                                    demo_id |-> demoId, action |-> action,
                                    src |-> t.src, dst |-> t.dst,
                                    newStatus |-> t.newStatus,
                                    mp3File |-> demoFiles[1].mp3File,
                                    metadataFile |-> demoFiles[1].metadataFile]]
                              /\ UNCHANGED last
    /\ UNCHANGED <<files, ext, demosCache, emailEnv, now, failures,
                   regKind, registry, flag, tokenCache>>

\* the first filesMoveV2 of moveDemoFiles; a move that is refused throws and
\* the action answers 500
ActionMoveAudio(c) ==
    /\ inflight[c].pc = "found"
    /\ IF MoveApplies(files, inflight[c].mp3File, inflight[c].src)
       THEN /\ files' = MoveFile(files, inflight[c].mp3File, inflight[c].dst)
            /\ inflight' = [inflight EXCEPT ![c].pc = "audio"]
            /\ UNCHANGED last
       ELSE /\ ActionAnswered(c, 500, Null)
            /\ UNCHANGED files
    /\ UNCHANGED <<ext, demosCache, emailEnv, now, failures,
                   regKind, registry, flag, tokenCache>>

\* the second filesMoveV2 of moveDemoFiles
ActionMoveSidecar(c) ==
    /\ inflight[c].pc = "audio"
    /\ IF MoveApplies(files, inflight[c].metadataFile, inflight[c].src)
       THEN /\ files' = MoveFile(files, inflight[c].metadataFile, inflight[c].dst)
            /\ inflight' = [inflight EXCEPT ![c].pc = "moved"]
            /\ UNCHANGED last
       ELSE /\ ActionAnswered(c, 500, Null)
            /\ UNCHANGED files
    /\ UNCHANGED <<ext, demosCache, emailEnv, now, failures,
                   regKind, registry, flag, tokenCache>>

\* the redis.get of updateDemoStatusInCache: the client holds the entry it read
ActionCacheRead(c) ==
    /\ inflight[c].pc = "moved"
    /\ inflight' = [inflight EXCEPT ![c] =
                      [inflight[c] EXCEPT !.pc = "read"] @@ [cache |-> demosCache]]
    /\ UNCHANGED <<files, ext, demosCache, emailEnv, now, failures, last,
                   regKind, registry, flag, tokenCache>>

\* the rest of updateDemoStatusInCache, on the entry the client has read: the
\* patch, the four listings and the redis.set; then the action answers 200
ActionCacheWrite(c) ==
    /\ inflight[c].pc = "read"
    /\ \E r \in UpdateDemoStatusInCache([NewRun EXCEPT !.cache = inflight[c].cache],
                                         inflight[c].demo_id, inflight[c].newStatus) :
          demosCache' = IF \E i \in 1 .. Len(r.calls) : r.calls[i].op = "redis.set"
                        THEN r.cache ELSE demosCache
    /\ ActionAnswered(c, 200, inflight[c].mp3File[1])
    /\ UNCHANGED <<files, ext, emailEnv, now, failures,
                   regKind, registry, flag, tokenCache>>

\* no registry file is stored and no registry request is under way
NoRegistry ==
    /\ regKind = "artists"
    /\ registry = NoFile
    /\ inflight = [c \in Clients |-> [pc |-> "idle"]]

\* the flag was never set and no access token is cached
NoSettings ==
    /\ flag = << >>
    /\ tokenCache = [value |-> << >>, expiresAt |-> 0]

\* every demo was just submitted.  The demos cache is empty; or, where the
\* storage holds .mp3 files only and the mail service is configured, it is
\* what a first GET /api/demos without a failed call has stored
Init ==
    /\ ext \in {e \in [Demos -> {"mp3", "wav"}] : e["a1"] = "mp3"}
    /\ files = [n \in Names |->
                  IF n \in DemoFiles THEN [at |-> STATUS_FOLDERS.submitted, mtime |-> 0]
                  ELSE [at |-> Gone, mtime |-> NoTime]]
    /\ now = 0
    /\ emailEnv \in [configured : BOOLEAN, accessToken : {FALSE}]
    /\ failures = 0
    /\ demosCache \in {RedisDelDemos} \cup
           {o.r.cache : o \in {g \in DemosGET([files |-> files, cache |-> RedisDelDemos,
                                               token |-> FALSE, calls |-> << >>,
                                               nfail |-> 0]) :
                                 /\ g.r.nfail = 0
                                 /\ ext["a12"] = "mp3"
                                 /\ emailEnv.configured}}
    /\ last = NoRequest
    /\ NoRegistry
    /\ NoSettings

\* the demo workflow: the two action endpoints, as time passes
Next ==
    \/ AssistantAction
    \/ OwnerAction

Spec == Init /\ [][Next]_vars

\* the rejected folder one cleanup interval after the first demo was stored:
\* each demo is in /demos/rejected or in /demos/assistant_liked, each of its
\* files was stored a whole interval ago, ten minutes later, or bears no
\* modification time; /demos/rejected may hold a sub-folder; the demos cache
\* is empty or what a GET /api/demos has just stored
InitSweep ==
    /\ ext = [d \in Demos |-> "mp3"]
    /\ now = CLEANUP_INTERVAL_MS
    /\ \E at \in [Demos -> {STATUS_FOLDERS.rejected, STATUS_FOLDERS.assistant_liked}],
          mt \in [DemoFiles -> {NoTime, 0, TICK_MS}],
          sub \in {Gone, REJECTED_FOLDER_PATH} :
           files = [n \in Names |->
                      IF n = SubFolder THEN [at |-> sub, mtime |-> NoTime]
                      ELSE [at |-> at[n[1]], mtime |-> mt[n]]]
    /\ emailEnv = [configured |-> TRUE, accessToken |-> TRUE]
    /\ failures = 0
    /\ demosCache \in {RedisDelDemos} \cup
           {o.r.cache : o \in {g \in DemosGET([files |-> files, cache |-> RedisDelDemos,
                                               token |-> TRUE, calls |-> << >>,
                                               nfail |-> 0]) : g.r.nfail = 0}}
    /\ last = NoRequest
    /\ NoRegistry
    /\ NoSettings

NextSweep ==
    \/ CleanupRejected
    \/ SweepTick

SpecSweep == InitSweep /\ [][NextSweep]_vars

\* no demo is stored and the demos cache is empty
NoDemos ==
    /\ ext = [d \in Demos |-> "mp3"]
    /\ files = [n \in Names |-> [at |-> Gone, mtime |-> NoTime]]
    /\ demosCache = RedisDelDemos
    /\ emailEnv = [configured |-> FALSE, accessToken |-> FALSE]

\* the flag was never set; a token stored just now is cached, or none
InitRedis ==
    /\ NoDemos
    /\ now = 0
    /\ failures = 0
    /\ last = NoRequest
    /\ regKind \in {"artists", "events"}
    /\ registry \in {NoFile, FileOf(<< >>)}
    /\ inflight = [c \in Clients |-> [pc |-> "idle"]]
    /\ flag = << >>
    /\ tokenCache \in {[value |-> << >>, expiresAt |-> 0],
                        RedisSetToken([accessToken |-> "token_1",
                                       expiryTime |-> TOKEN_LIFETIME_MS])}

\* the settings endpoint and the registry listing, as the token ages
NextRedis ==
    \/ SettingsGet
    \/ SettingsPatch
    \/ RegistryList
    \/ TokenTick

SpecRedis == InitRedis /\ [][NextRedis]_vars

\* demo a1 is a .mp3 file with its sidecar in /demos/submitted or in
\* /demos/rejected; demo a12 is a .mp3 or a .wav file in any of the four
\* folders, with its sidecar or without.  The demos cache is empty, or is
\* what a GET /api/demos has just stored, or is what a GET /api/demos stored
\* just before demo a12 arrived
InitListing ==
    /\ ext \in {e \in [Demos -> {"mp3", "wav"}] : e["a1"] = "mp3"}
    /\ \E at1 \in {STATUS_FOLDERS.submitted, STATUS_FOLDERS.rejected},
          at12 \in Folders,
          meta12 \in BOOLEAN :
           files = [n \in Names |->
                      IF n = SubFolder THEN [at |-> Gone, mtime |-> NoTime]
                      ELSE IF n[1] = "a1" THEN [at |-> at1, mtime |-> 0]
                      ELSE IF n = MetaOf("a12") /\ ~meta12
                      THEN [at |-> Gone, mtime |-> NoTime]
                      ELSE [at |-> at12, mtime |-> 0]]
    /\ now = 0
    /\ emailEnv = [configured |-> TRUE, accessToken |-> TRUE]
    /\ failures = 0
    /\ LET before == [n \in Names |->
                        IF n \in DemoFiles /\ n[1] = "a12"
                        THEN [at |-> Gone, mtime |-> NoTime] ELSE files[n]]
       IN demosCache \in {RedisDelDemos} \cup
              {o.r.cache : o \in {g \in UNION {DemosGET([files |-> fs,
                                                          cache |-> RedisDelDemos,
                                                          token |-> TRUE,
                                                          calls |-> << >>,
                                                          nfail |-> 0])
                                                   : fs \in {files, before}}
                                     : g.r.nfail = 0}}
    /\ last = NoRequest
    /\ NoRegistry
    /\ NoSettings

\* the listing endpoint, as time passes
NextListing ==
    \/ GetDemos
    \/ Tick

SpecListing == InitListing /\ [][NextListing]_vars

\* the registry file does not exist, or holds an array of up to MaxRecords
\* records that requests have stored
InitRegistry ==
    /\ NoDemos
    /\ NoSettings
    /\ now = 0
    /\ failures = 0
    /\ last = NoRequest
    /\ regKind \in {"artists", "events"}
    /\ registry \in {NoFile} \cup
           {FileOf(items) : items \in
               UNION {[1 .. k -> {NewRecord(regKind, b) : b \in GoodBodies(regKind)}]
                        : k \in 0 .. MaxRecords}}
    /\ inflight = [c \in Clients |-> [pc |-> "idle"]]

\* the registry endpoints, one request at a time
NextRegistry ==
    \/ RegistryRequest
    \/ RegistryList

SpecRegistry == InitRegistry /\ [][NextRegistry]_vars

\* an empty or missing registry file and a cached access token
InitRace ==
    /\ NoDemos
    /\ now = 0
    /\ failures = 0
    /\ last = NoRequest
    /\ regKind \in {"artists", "events"}
    /\ registry \in {NoFile, FileOf(<< >>)}
    /\ inflight = [c \in Clients |-> [pc |-> "idle"]]
    /\ flag = << >>
    /\ tokenCache = RedisSetToken([accessToken |-> "token_1",
                                   expiryTime |-> TOKEN_LIFETIME_MS])

\* POST requests of two clients that overlap
NextRace ==
    \E c \in Clients :
        \/ PostDownload(c)
        \/ PostUpload(c)

SpecRace == InitRace /\ [][NextRace]_vars

\* each demo is a .mp3 file with its sidecar, stored ten minutes ago: a1 in
\* /demos/submitted, a12 there, in /demos/assistant_liked or in /demos/rejected; the
\* demos cache is empty or what a GET /api/demos has just stored; no call to
\* the storage, the cache or the mail service fails
InitOverlap ==
    /\ ext = [d \in Demos |-> "mp3"]
    /\ \E at12 \in {STATUS_FOLDERS.submitted, STATUS_FOLDERS.assistant_liked,
                     STATUS_FOLDERS.rejected} :
           files = [n \in Names |->
                      IF n = SubFolder THEN [at |-> Gone, mtime |-> NoTime]
                      ELSE IF n[1] = "a1"
                      THEN [at |-> STATUS_FOLDERS.submitted, mtime |-> 0]
                      ELSE [at |-> at12, mtime |-> 0]]
    /\ now = TICK_MS
    /\ emailEnv = [configured |-> FALSE, accessToken |-> FALSE]
    /\ failures = MaxFailures
    /\ demosCache \in {RedisDelDemos} \cup
           {o.r.cache : o \in {g \in DemosGET([files |-> files, cache |-> RedisDelDemos,
                                               token |-> FALSE, calls |-> << >>,
                                               nfail |-> 0]) : g.r.nfail = 0}}
    /\ last = NoRequest
    /\ NoRegistry
    /\ NoSettings

\* one demo action of each client, step by step, and GET /api/demos
NextOverlap ==
    \/ \E c \in Clients :
          \/ ActionFind(c)
          \/ ActionMoveAudio(c)
          \/ ActionMoveSidecar(c)
          \/ ActionCacheRead(c)
          \/ ActionCacheWrite(c)
    \/ GetDemos

SpecOverlap == InitOverlap /\ [][NextOverlap]_vars

----------------------------------------------------------------------------
(* Properties of the demo workflow *)

\* the last request was a demo action
IsAction(req) == req.op \in {"assistant", "owner"}

\* the positions in req.calls of the calls of one kind
CallsOf(req, op) == {i \in 1..Len(req.calls) : req.calls[i].op = op}

\* the status the demos cache c holds for a demo, Null when it holds none
CachedStatus(c, demoId) ==
    LET cache == RedisGetDemos(c)
    IN IF cache = << >> THEN Null
       ELSE LET i == FindIndex(cache[1].demos, demoId)
            IN IF i = 0 THEN Null ELSE cache[1].demos[i].status

\* both files of demo d are in one folder
PairIn(fs, d, folderPath) ==
    fs[AudioOf(d)].at = folderPath /\ fs[MetaOf(d)].at = folderPath

\* C1: after a demo action that answered success, the audio file and the
\* sidecar of the demo named in the request are both in the destination
\* folder of the action, hence neither is in its source folder
C1_PairInDestination ==
    (IsAction(last) /\ last.status = 200) =>
        PairIn(files, last.demo_id, last.dst)

\* the row of the transition table for an action, S being the source of reject
TransitionRow(action, S) ==
    CASE action = "like" ->
           <<STATUS_FOLDERS.submitted, STATUS_FOLDERS.assistant_liked, "assistant_liked">>
      [] action = "approve" ->
           <<STATUS_FOLDERS.assistant_liked, STATUS_FOLDERS.owner_liked, "owner_liked">>
      [] action = "undo_reject" ->
           <<STATUS_FOLDERS.rejected, STATUS_FOLDERS.assistant_liked, "assistant_liked">>
      [] action = "reject" ->
           <<STATUS_FOLDERS[S], STATUS_FOLDERS.rejected, "rejected">>

\* the triples an endpoint resolves an action to in the current state when no
\* external call fails
ResolvedBy(endpoint, action, demoId) ==
    LET outcomes == IF endpoint = "assistant"
                    THEN AssistantResolve(NewRun, action, demoId)
                    ELSE OwnerResolve(NewRun, action, demoId)
    IN {<<t.src, t.dst, t.newStatus>> : t \in {u \in outcomes : u.r.nfail = failures}}

\* C2: both endpoints resolve an action by one table: like, approve (owner
\* only) and undo_reject have a fixed row, reject takes its source from the
\* cached status when that is submitted or assistant_liked, and for every
\* action both endpoints accept and every status the cache holds for the demo
\* the two endpoints resolve the same triple
C2_OneTable ==
    \A demoId \in RequestIds :
        LET S == CachedStatus(demosCache, demoId)
        IN /\ \A endpoint \in {"assistant", "owner"} :
                /\ ResolvedBy(endpoint, "like", demoId) = {TransitionRow("like", S)}
                /\ ResolvedBy(endpoint, "undo_reject", demoId)
                       = {TransitionRow("undo_reject", S)}
                /\ S \in {"submitted", "assistant_liked"} =>
                       ResolvedBy(endpoint, "reject", demoId) = {TransitionRow("reject", S)}
           /\ ResolvedBy("owner", "approve", demoId) = {TransitionRow("approve", S)}
           /\ S # Null =>
                \A action \in {"like", "reject", "undo_reject"} :
                    ResolvedBy("assistant", action, demoId)
                        = ResolvedBy("owner", action, demoId)

\* C3: a reject of a demo the cache holds no status for, no external call
\* failing, lists both /demos/submitted and /demos/assistant_liked before it
\* answers 404, answers 404 only if the pair of the demo is in neither of
\* them, and otherwise moves the pair from the folder that held it to
\* /demos/rejected
C3_RejectProbesBothFolders ==
    [][ (/\ IsAction(last')
         /\ last'.action = "reject"
         /\ last'.nfail = 0
         /\ last'.status \in {200, 404}
         /\ CachedStatus(demosCache, last'.demo_id) = Null)
        =>
        LET d == last'.demo_id
            lists == {last'.calls[i].a : i \in CallsOf(last', "list")}
            held == PairIn(files, d, STATUS_FOLDERS.submitted)
                    \/ PairIn(files, d, STATUS_FOLDERS.assistant_liked)
        IN /\ last'.status = 404 =>
                  {STATUS_FOLDERS.submitted, STATUS_FOLDERS.assistant_liked} \subseteq lists
           /\ last'.status = 404 <=> ~held
           /\ last'.status = 200 =>
                  /\ PairIn(files, d, last'.src)
                  /\ PairIn(files', d, STATUS_FOLDERS.rejected)
      ]_vars

\* C4: a demo action that answers success without a failed external call, on
\* a demo the cache holds, leaves the cache holding the new status for that
\* demo, and every other demo of the cache and the cache timestamp as they were
C4_CachePatchedInPlace ==
    [][ LET cache == RedisGetDemos(demosCache)
        IN (/\ IsAction(last')
            /\ last'.status = 200
            /\ last'.nfail = 0
            /\ CachedStatus(demosCache, last'.demo_id) # Null)
           =>
           LET demoIndex == FindIndex(cache[1].demos, last'.demo_id)
               after == demosCache'.value
           IN /\ after # << >>
              /\ Len(after[1].demos) = Len(cache[1].demos)
              /\ \A i \in 1..Len(cache[1].demos) :
                    after[1].demos[i] =
                        IF i = demoIndex
                        THEN [cache[1].demos[i] EXCEPT !.status = last'.newStatus]
                        ELSE cache[1].demos[i]
              /\ after[1].timestamp = cache[1].timestamp
      ]_vars

\* a successful action patched the status of demo a1 in a cache that also
\* holds demo a12
C4_Witness ==
    /\ IsAction(last) /\ last.status = 200 /\ last.nfail = 0
    /\ last.demo_id = "a1" /\ last.action = "reject"
    /\ CachedStatus(demosCache, "a1") = "rejected"
    /\ CachedStatus(demosCache, "a12") = "submitted"

\* the template of the notification of an action
TemplateOf(action) == IF action = "like" THEN "liked" ELSE "rejected"

\* the successful moves of a request
MovesDone(req) == {i \in CallsOf(req, "move") : req.calls[i].ok}

\* C5: a like or a reject that succeeds on either endpoint, the email service
\* being configured and no external call failing, issues exactly one send of
\* the matching template, after both moves and after the cache patch has read
\* the cache; an undo_reject or an approve issues no send
C5_OneEmailAfterMoveAndPatch ==
    (IsAction(last) /\ last.status = 200 /\ last.nfail = 0) =>
        LET sends == CallsOf(last, "gmail.send")
        IN IF last.action \in {"like", "reject"}
           THEN emailEnv.configured =>
                  /\ Cardinality(sends) = 1
                  /\ \A i \in sends :
                        /\ last.calls[i].b = TemplateOf(last.action)
                        /\ Cardinality({j \in MovesDone(last) : j < i}) = 2
                        /\ \E j \in CallsOf(last, "redis.get") :
                              /\ j < i
                              /\ \A k \in MovesDone(last) : k < j
           ELSE sends = {}

\* the email step of a request ran and ended without a send that succeeded
EmailStepFailed(req) ==
    /\ req.op = "assistant"
    /\ req.action \in {"like", "reject"}
    /\ Cardinality(MovesDone(req)) = 2
    /\ \A i \in CallsOf(req, "gmail.send") : ~req.calls[i].ok

\* C6: when the email step of a like or a reject fails, the action answers
\* success with notification_sent false and an error that is not null, the
\* two files it moved are in the destination folder, and the status the
\* cache patch stored is still in the cache
C6_EmailFailureKeepsSuccess ==
    EmailStepFailed(last) =>
        /\ last.status = 200
        /\ last.email # NoEmail
        /\ last.email[1].notification_sent = FALSE
        /\ last.email[1].error # Null
        /\ \A i \in MovesDone(last) :
              \E n \in DemoFiles : /\ last.calls[i].b = PathOf(last.dst, n)
                                   /\ files[n].at = last.dst
        /\ (\E i \in CallsOf(last, "redis.set") : last.calls[i].ok) =>
              CachedStatus(demosCache, last.demo_id) = last.newStatus

\* a like whose send failed answered success and left the pair in
\* /demos/assistant_liked
C6_Witness ==
    /\ EmailStepFailed(last)
    /\ last.action = "like"
    /\ \E i \in CallsOf(last, "gmail.send") : ~last.calls[i].ok
    /\ last.status = 200
    /\ last.email = EmailStatus(FALSE, "Failed to send email")
    /\ PairIn(files, last.demo_id, STATUS_FOLDERS.assistant_liked)

\* C7: a demo action, no external call failing, that resolves to a source
\* folder where the audio file of the demo is not, answers 404, moves no
\* file, leaves the cache as it was and sends no email
C7_NotInSourceIs404 ==
    [][ (/\ IsAction(last')
         /\ last'.nfail = 0
         /\ last'.src # Null
         /\ files[AudioOf(last'.demo_id)].at # last'.src)
        =>
        /\ last'.status = 404
        /\ files' = files
        /\ demosCache' = demosCache
        /\ CallsOf(last', "move") = {}
        /\ CallsOf(last', "redis.set") = {}
        /\ CallsOf(last', "gmail.send") = {}
      ]_vars

----------------------------------------------------------------------------
(* Properties of the cleanup sweep *)

\* the entries of /demos/rejected that are files stored at least the cleanup
\* interval before `time`
StaleAt(fs, time) ==
    {n \in Names : /\ fs[n].at = REJECTED_FOLDER_PATH
                   /\ TagOf(n) = "file"
                   /\ fs[n].mtime # NoTime
                   /\ time - fs[n].mtime >= CLEANUP_INTERVAL_MS}

\* the listing of a sweep succeeded
Listed(req) ==
    /\ req.status # 401
    /\ \A i \in 1..Len(req.calls) :
          req.calls[i].op \in {"token", "list", "list.continue"} => req.calls[i].ok

\* C8: every delete a sweep issues is for a file entry of /demos/rejected
\* whose modification time is at least 24 hours before the start of the
\* sweep; an entry of the folder that is younger, bears no modification time
\* or is not a file is left as it was
C8_OnlyStaleFilesDeleted ==
    [][ CleanupRejected =>
        /\ \A i \in CallsOf(last', "delete") :
              \E n \in StaleAt(files, now) :
                  last'.calls[i].a = PathOf(REJECTED_FOLDER_PATH, n)
        /\ \A n \in Names :
              (files[n].at = REJECTED_FOLDER_PATH /\ n \notin StaleAt(files, now))
                  => files'[n] = files[n]
      ]_vars

\* a sweep has deleted a file and has left in /demos/rejected a file ten
\* minutes too young, a file without modification time and the sub-folder
C8_Witness ==
    /\ last.op = "sweep" /\ last.deleted >= 1
    /\ files[SubFolder].at = REJECTED_FOLDER_PATH
    /\ \E n \in DemoFiles : /\ files[n].at = REJECTED_FOLDER_PATH
                            /\ files[n].mtime = NoTime
    /\ \E n \in DemoFiles : /\ files[n].at = REJECTED_FOLDER_PATH
                            /\ files[n].mtime # NoTime
                            /\ now - files[n].mtime = CLEANUP_INTERVAL_MS - TICK_MS

\* C9: in a sweep whose listing succeeded every stale file gets exactly one
\* delete call, whether or not an earlier delete failed; the failed count is
\* the number of deletes that failed; and when no call other than deletes
\* failed, the sweep answers 200, status success
C9_EveryStaleFileAttemptedOnce ==
    [][ (CleanupRejected /\ Listed(last')) =>
        LET deletes == CallsOf(last', "delete")
        IN /\ \A n \in StaleAt(files, now) :
                 Cardinality({i \in deletes :
                     last'.calls[i].a = PathOf(REJECTED_FOLDER_PATH, n)}) = 1
           /\ last'.failed = Cardinality({i \in deletes : ~last'.calls[i].ok})
           /\ (\A i \in 1..Len(last'.calls) :
                   ~last'.calls[i].ok => last'.calls[i].op = "delete")
                 => last'.status = 200
      ]_vars

\* a sweep answered success after a delete that failed and a later delete
\* that succeeded
C9_Witness ==
    /\ last.op = "sweep" /\ last.status = 200 /\ last.failed >= 1
    /\ \E i, j \in CallsOf(last, "delete") :
          i < j /\ ~last.calls[i].ok /\ last.calls[j].ok

\* C10: a sweep issues one deletion of the demos cache key, after all its
\* file deletes, when at least one file delete succeeded, and none otherwise;
\* a sweep no file delete of which succeeded leaves the demos cache as it was
C10_CacheInvalidatedOnceIffDeleted ==
    [][ CleanupRejected =>
        LET deletes == CallsOf(last', "delete")
            dels == CallsOf(last', "redis.del")
            anyDeleted == \E i \in deletes : last'.calls[i].ok
        IN /\ Cardinality(dels) = IF anyDeleted THEN 1 ELSE 0
           /\ \A i \in dels : \A j \in deletes : j < i
           /\ ~anyDeleted => demosCache' = demosCache
           /\ (anyDeleted /\ last'.status = 200) => demosCache' = RedisDelDemos
      ]_vars

\* a sweep deleted two files, one delete failing, and then removed the demos
\* cache key
C10_Witness ==
    /\ last.op = "sweep" /\ last.deleted >= 2 /\ last.failed = 1
    /\ Len(last.calls) > 0
    /\ last.calls[Len(last.calls)].op = "redis.del"
    /\ last.calls[Len(last.calls)].ok
    /\ demosCache = RedisDelDemos

\* C11: a sweep request whose Authorization header is not exactly "Bearer "
\* followed by the configured secret, or that arrives when no secret is
\* configured, is answered 401, issues no external call (no listing, no
\* delete, no cache invalidation) and leaves the storage and the cache as
\* they were
C11_UnauthorizedSweepHasNoEffect ==
    [][ (/\ CleanupRejected
         /\ \/ last'.secret = ""
            \/ last'.authorization # "Bearer " \o last'.secret)
        =>
        /\ last'.status = 401
        /\ last'.calls = << >>
        /\ files' = files
        /\ demosCache' = demosCache
      ]_vars

\* a request bearing "Bearer " while no secret is configured was answered
\* 401 and a stale file is still in /demos/rejected
C11_Witness ==
    /\ last.op = "sweep" /\ last.status = 401
    /\ last.secret = "" /\ last.authorization = "Bearer "
    /\ StaleAt(files, now) # {}

----------------------------------------------------------------------------
(* Properties of the settings flag and of the token cache *)

\* C15: a read of the demo-submission flag that is answered returns true
\* while the flag was never set and otherwise the value last set; the flag
\* changes only by a PATCH of a signed-in user with a boolean payload that
\* is answered 200, and then it becomes that boolean: it never expires, and
\* no read, no PATCH without a session, no PATCH with a payload that is not
\* a boolean, no registry request and no passing of time changes it
C15_FlagKeepsItsValue ==
    /\ []((last.op = "settings.get" /\ last.status = 200)
            => last.enabled = <<IF flag = << >> THEN TRUE ELSE flag[1]>>)
    /\ [][flag' # flag =>
            /\ last'.op = "settings.patch"
            /\ last'.userId # ""
            /\ last'.payload.type = "boolean"
            /\ last'.status = 200
            /\ flag' = <<last'.payload.text = "true">>
         ]_vars

\* the flag was set to false and, after time has passed, a read returned false
C15_Witness ==
    /\ flag = <<FALSE>>
    /\ now > 0
    /\ last.op = "settings.get" /\ last.status = 200
    /\ last.enabled = <<FALSE>>

\* C19: a handler that asks for an access token, when Redis answers: with a
\* cached token whose expiry time is in the future it gets that token, no
\* refresh exchange is made and the cache entry stays; otherwise exactly one
\* refresh exchange is made, and when it succeeds and the new token is
\* stored, the handler gets the new token and the cache holds it with an
\* expiry time 3.5 hours ahead; when the exchange fails the handler gets the
\* static configured token and the cache entry stays
C19_TokenCachedOrRefreshedOnce ==
    [][ (RegistryList /\ last'.calls[1].ok) =>
          LET cachedToken == RedisGetToken(tokenCache)
              refreshes == CallsOf(last', "oauth2/token")
              sets == {i \in CallsOf(last', "redis.set") : last'.calls[i].ok}
          IN IF cachedToken # << >> /\ now < cachedToken[1].expiryTime
             THEN /\ last'.accessToken = cachedToken[1].accessToken
                  /\ refreshes = {}
                  /\ tokenCache' = tokenCache
             ELSE /\ Cardinality(refreshes) = 1
                  /\ \A i \in refreshes :
                        IF ~last'.calls[i].ok
                        THEN /\ last'.accessToken = ENV_TOKEN
                             /\ tokenCache' = tokenCache
                        ELSE sets # {} =>
                             /\ last'.accessToken \in FreshTokens
                             /\ tokenCache'.value =
                                  <<[accessToken |-> last'.accessToken,
                                     expiryTime |-> now + 12600000]>>
                             /\ tokenCache'.expiresAt = now + 12600000
      ]_vars

\* the cached token has reached its expiry time and a request has replaced
\* it by a second one
C19_Witness ==
    /\ now = 12600000
    /\ last.op = "registry.get"
    /\ last.accessToken = "token_2"
    /\ tokenCache.value # << >>
    /\ tokenCache.value[1].accessToken = "token_2"
    /\ tokenCache.value[1].expiryTime = 2 * 12600000

----------------------------------------------------------------------------
(* Properties of the registries *)

\* text t is text u without the white space around it
IsTrimOf(t, u) ==
    /\ t = << >> \/ (t[1] # " " /\ t[Len(t)] # " ")
    /\ \E i \in 1 .. Len(u) + 1 :
          /\ i + Len(t) - 1 <= Len(u)
          /\ t = SubSeq(u, i, i + Len(t) - 1)
          /\ \A k \in 1 .. Len(u) : (k < i \/ k > i + Len(t) - 1) => u[k] = " "

\* the body has every required field, each with text that is not white space
ValidBody(kind, body) ==
    \A f \in RequiredFields(kind) :
        f \in DOMAIN body /\ \E k \in 1 .. Len(body[f]) : body[f][k] # " "

\* the index names an integer
IndexGiven(index) == index.given /\ index.numeric

\* C12: a POST with a valid body, handled without a failed call while the
\* registry file does not exist or holds an empty array, is answered 200 and
\* leaves a file whose array holds exactly one record: each field of the
\* body that has text, without the white space around it, and no other field
C12_FirstRecordIsTrimmedInput ==
    [][ (/\ last'.op = "registry.post"
         /\ ValidBody(regKind, last'.body)
         /\ last'.nfail = 0
         /\ registry.items = << >>)
        =>
        /\ last'.status = 200
        /\ registry'.exists
        /\ Len(registry'.items) = 1
        /\ LET record == registry'.items[1]
               body == last'.body
           IN /\ DOMAIN record \subseteq DOMAIN body
              /\ \A f \in DOMAIN body :
                    IF f \in DOMAIN record
                    THEN IsTrimOf(record[f], body[f])
                    ELSE IsTrimOf(<< >>, body[f])
      ]_vars

\* an event whose title had white space around it and whose optional URL was
\* white space only is the one record of the file
C12_Witness ==
    /\ regKind = "events"
    /\ last.op = "registry.post" /\ last.status = 200
    /\ last.n = 0 /\ last.nfail = 0
    /\ last.body.event_external_url = <<" ">>
    /\ registry.exists
    /\ Len(registry.items) = 1
    /\ registry.items[1].times = <<"21:00">>
    /\ "event_external_url" \notin DOMAIN registry.items[1]

\* C13: a DELETE of index i, 0 <= i < n, handled without a failed call on a
\* registry of n entries, is answered 200 and leaves n - 1 entries: those
\* before i where they were, those after i one place lower, in their order
C13_DeleteShiftsLaterEntries ==
    [][ (/\ last'.op = "registry.delete"
         /\ last'.nfail = 0
         /\ registry.exists
         /\ IndexGiven(last'.index)
         /\ last'.index.value >= 0
         /\ last'.index.value < Len(registry.items))
        =>
        LET i == last'.index.value
            n == Len(registry.items)
        IN /\ last'.status = 200
           /\ registry'.exists
           /\ Len(registry'.items) = n - 1
           /\ \A j \in 0 .. n - 1 :
                 /\ j < i => registry'.items[j + 1] = registry.items[j + 1]
                 /\ j > i => registry'.items[j] = registry.items[j + 1]
      ]_vars

\* the first of two different entries was deleted and the second is now first
C13_Witness ==
    /\ last.op = "registry.delete" /\ last.status = 200
    /\ last.index.value = 0 /\ last.n = 2
    /\ Len(registry.items) = 1
    /\ registry.items[1].artist_name = <<"Y">>

\* a PUT with a valid body or a DELETE, handled without a failed call on an
\* existing registry file, whose index is at or beyond the end of the array
OutOfRange(req) ==
    /\ req.op \in {"registry.put", "registry.delete"}
    /\ req.op = "registry.put" => req.body \in GoodBodies(regKind)
    /\ req.nfail = 0
    /\ registry.exists
    /\ IndexGiven(req.index)
    /\ req.index.value >= Len(registry.items)

\* C14, as stated: a PUT or DELETE whose index is not in the stored array is
\* answered 404 and leaves the file as it was
C14_OutOfRangeIs404 ==
    [][ OutOfRange(last')
        => (last'.status = 404 /\ registry' = registry) ]_vars

\* C14, amended: a PUT or DELETE whose index is not in the array of an
\* existing registry file is answered 400 and leaves the file as it was
C14_OutOfRangeIs400 ==
    [][ OutOfRange(last')
        => (last'.status = 400 /\ registry' = registry) ]_vars

\* a PUT with a valid body for index 2 of an array of two entries was
\* answered 400
C14_Witness ==
    /\ last.op = "registry.put" /\ last.status = 400
    /\ last.body \in GoodBodies(regKind)
    /\ last.index.value = 2 /\ last.n = 2
    /\ Len(registry.items) = 2

\* C20: no conflict is detected: whenever the upload call of a POST works,
\* the POST is answered 200 and the file becomes the array that writer built
\* from its own download, whatever another writer has stored since; so two
\* overlapping POSTs can both be answered 200 with one record lost
C20_LastWriteWins ==
    [][ \A c \in Clients :
          (PostUpload(c) /\ last'.calls[1].ok) =>
              /\ last'.status = 200
              /\ registry' = FileOf(inflight[c].updated)
      ]_vars

\* both clients' POSTs of different records, each having downloaded an empty
\* array, were answered 200, and the file holds the last writer's record only
C20_Witness ==
    /\ \A c \in Clients :
          /\ inflight[c].pc = "answered"
          /\ inflight[c].status = 200
          /\ inflight[c].n = 0
    /\ inflight[1].body # inflight[2].body
    /\ failures = 0
    /\ last.client \in Clients
    /\ registry.items = <<NewRecord(regKind, inflight[last.client].body)>>

----------------------------------------------------------------------------
(* Properties of the demos listing *)

\* the step is a GET /api/demos
IsGet(req) == req.op = "get"

\* the folders whose digest in the cache entry is not the digest of the folder
Differing(c) ==
    {f \in Folders : c.value[1].folderHashes[f] # GenerateFolderHash(files, f)}

\* the listings of the digest check: the first four listings of a GET
DigestListings(req) ==
    {i \in CallsOf(req, "list") :
        Cardinality({j \in CallsOf(req, "list") : j < i}) < 4}

\* C16: a GET /api/demos answered 200 without a failed call, then, with no
\* request in between and less than 15 minutes after the cache entry was
\* written, a second GET without a failed call: the second is answered 200
\* with cached true and the demos of the first in the same order, and it
\* issues exactly four folder listings, no download and no sharing call
C16_SecondGetIsCached ==
    [][ (/\ IsGet(last) /\ last.status = 200 /\ last.nfail = 0
         /\ demosCache.value # << >>
         /\ now - demosCache.value[1].timestamp < 900000
         /\ now < demosCache.expiresAt
         /\ IsGet(last') /\ last'.nfail = 0
         /\ now' = now)
        =>
        /\ last'.status = 200
        /\ last'.cached
        /\ last'.demos = last.demos
        /\ Cardinality(CallsOf(last', "list")) = 4
        /\ CallsOf(last', "download") = {}
        /\ CallsOf(last', "sharing") = {}
      ]_vars

\* ten minutes after a GET that fetched two demos, a second GET answered
\* them from the cache
C16_Witness ==
    /\ IsGet(last) /\ last.status = 200 /\ last.cached
    /\ Len(last.demos) = 2
    /\ now > 0
    /\ demosCache.value # << >>
    /\ demosCache.value[1].timestamp = 0
    /\ Cardinality(CallsOf(last, "list")) = 4

Expected ==
    {e \in [demo_id : Demos, status : Statuses] :
        /\ files[AudioOf(e.demo_id)].at = STATUS_FOLDERS[e.status]
        /\ files[MetaOf(e.demo_id)].at = STATUS_FOLDERS[e.status]}

\* C18: a GET /api/demos that is not answered from the cache and has no
\* failed call returns exactly one demo for every audio file, .mp3 or .wav,
\* that has its sidecar, and each with the status of its folder
C18_EveryPairListedOnce ==
    (IsGet(last) /\ last.status = 200 /\ ~last.cached /\ last.nfail = 0)
    =>
    /\ {last.demos[i] : i \in 1 .. Len(last.demos)} = Expected
    /\ Len(last.demos) = Cardinality(Expected)

----------------------------------------------------------------------------
(* Properties of failures and of overlapping requests *)

\* the request moved the audio file and then failed to move the sidecar
SidecarMoveFailed(req) ==
    LET moves == CallsOf(req, "move")
    IN /\ IsAction(req)
       /\ Cardinality(moves) >= 2
       /\ \E i, j \in moves :
             /\ i < j
             /\ \A k \in moves : k >= i
             /\ req.calls[i].ok /\ ~req.calls[j].ok
             /\ \A k \in moves : k > i => k >= j

\* the audio file and the sidecar of demo d are stored in different folders
Split(fs, d) == fs[AudioOf(d)].at # fs[MetaOf(d)].at

\* C21: an action whose move of the audio file succeeds and whose move of the
\* sidecar fails answers 500 and issues no call after the failed move: the
\* audio file is in the destination folder, the sidecar still in the source
\* folder, the cache is as it was and no email is attempted; and no request
\* moves a file of a pair that is split
C21_SplitPairIsLeftAlone ==
    [][ /\ SidecarMoveFailed(last') =>
              /\ last'.status = 500
              /\ Cardinality(CallsOf(last', "move")) = 2
              /\ last'.calls[Len(last'.calls)].op = "move"
              /\ \E d \in Demos :
                    /\ \E i \in CallsOf(last', "move") :
                          /\ last'.calls[i].ok
                          /\ last'.calls[i].a = PathOf(last'.src, AudioOf(d))
                          /\ last'.calls[i].b = PathOf(last'.dst, AudioOf(d))
                    /\ files[AudioOf(d)].at = last'.src
                    /\ files'[AudioOf(d)].at = last'.dst
                    /\ files'[MetaOf(d)] = files[MetaOf(d)]
                    /\ files'[MetaOf(d)].at = last'.src
              /\ demosCache' = demosCache
              /\ CallsOf(last', "gmail.send") = {}
              /\ CallsOf(last', "oauth2.token") = {}
        /\ \A d \in Demos :
              Split(files, d) => /\ files'[AudioOf(d)] = files[AudioOf(d)]
                                 /\ files'[MetaOf(d)] = files[MetaOf(d)]
      ]_vars

\* the pair of demo a12 was split by a failed move, and a later like of a12,
\* no call of which failed, was answered 404 and has left the pair split
C21_Witness ==
    /\ failures = 1
    /\ Split(files, "a12")
    /\ files[MetaOf("a12")].at = STATUS_FOLDERS.submitted
    /\ files[AudioOf("a12")].at = STATUS_FOLDERS.assistant_liked
    /\ IsAction(last) /\ last.demo_id = "a12" /\ last.action = "like"
    /\ last.nfail = 0 /\ last.status = 404

\* call j of a request repeats its failed call i: the same call, issued again
\* with nothing in between but token refreshes.  The read of the storage
\* token that opens each storage step is not counted: it is a new read
Retried(req, i, j) ==
    /\ i < j
    /\ ~req.calls[i].ok
    /\ req.calls[i].op # "token"
    /\ req.calls[j].op = req.calls[i].op
    /\ req.calls[j].a = req.calls[i].a
    /\ req.calls[j].b = req.calls[i].b
    /\ \A k \in i + 1 .. j - 1 : req.calls[k].op = "oauth2.token"

C24_OnlyTheNamedDemoMoves ==
    [][ IsAction(last') =>
          \A n \in DemoFiles : files'[n] # files[n] => n[1] = last'.demo_id
      ]_vars

\* C25: an action that names a demo whose two files are in /demos/owner_liked
\* fails, whatever the action and whatever the cache holds, and leaves the
\* files of that demo in /demos/owner_liked
C25_OwnerLikedIsTerminal ==
    [][ (/\ IsAction(last')
         /\ last'.demo_id \in Demos
         /\ PairIn(files, last'.demo_id, STATUS_FOLDERS.owner_liked))
        =>
        /\ last'.status # 200
        /\ PairIn(files', last'.demo_id, STATUS_FOLDERS.owner_liked)
      ]_vars

\* C29: a reject no call of which fails, of a demo whose two files are
\* together in /demos/submitted or in /demos/assistant_liked, succeeds and
\* moves the pair to /demos/rejected, whatever the demos cache holds
C29_RejectFollowsTheFiles ==
    [][ (/\ IsAction(last')
         /\ last'.action = "reject"
         /\ last'.nfail = 0
         /\ \/ PairIn(files, last'.demo_id, STATUS_FOLDERS.submitted)
            \/ PairIn(files, last'.demo_id, STATUS_FOLDERS.assistant_liked))
        =>
        /\ last'.status = 200
        /\ PairIn(files', last'.demo_id, STATUS_FOLDERS.rejected)
      ]_vars

\* C26: a POST to a registry whose file exists keeps every stored record in
\* its place: the array it leaves is no shorter than the array it found and
\* begins with it, also when the download of the file fails or is refused
C26_PostKeepsStoredRecords ==
    [][ (last'.op = "registry.post" /\ registry.exists) =>
          /\ registry'.exists
          /\ Len(registry'.items) >= Len(registry.items)
          /\ \A i \in 1 .. Len(registry.items) :
                registry'.items[i] = registry.items[i]
      ]_vars

\* the errors list after k deletes in a row have failed
RECURSIVE ErrorsAfter(_)
ErrorsAfter(k) ==
    IF k = 0 THEN << >> ELSE ErrorDetails(ErrorsAfter(k - 1), "path")

\* C27: in every sweep response with status success the counters agree:
\* deleted + failed = stale_candidates <= scanned, and the errors list has
\* min(failed, 20) entries; the list a run of failed deletes builds never
\* grows beyond 20 entries
C27_SweepCountersAgree ==
    /\ (last.op = "sweep" /\ last.status = 200) =>
          /\ last.deleted + last.failed = last.stale_candidates
          /\ last.stale_candidates <= last.scanned
          /\ Len(last.errors) = IF last.failed < 20 THEN last.failed ELSE 20
    /\ \A k \in 0 .. 22 : Len(ErrorsAfter(k)) = IF k < 20 THEN k ELSE 20

\* a sweep that scanned more files than were stale deleted some of the stale
\* ones, failed to delete one and reported that one failure
C27_Witness ==
    /\ last.op = "sweep" /\ last.status = 200
    /\ last.scanned > last.stale_candidates
    /\ last.deleted >= 1 /\ last.failed = 1
    /\ Len(last.errors) = 1

\* C28: a cache entry whose digests are those of the four folders as they
\* are holds every demo GET /api/demos lists: every .mp3 file that has its
\* sidecar beside it, also after a refetch in which the fetch of a folder or
\* the download of a sidecar has failed
C28_CacheEntryIsComplete ==
    (/\ demosCache.value # << >>
     /\ now < demosCache.expiresAt
     /\ Differing(demosCache) = {})
    =>
    \A e \in Expected :
        ext[e.demo_id] = "mp3" =>
            \E i \in 1 .. Len(demosCache.value[1].demos) :
                demosCache.value[1].demos[i].demo_id = e.demo_id

\* C23: whenever GET /api/demos answers from the cache, the status it returns
\* for each demo is the status of the folder that holds the demo's files
C23_CachedStatusIsTheFolder ==
    [][ (/\ IsGet(last') /\ inflight' = inflight
         /\ last'.status = 200 /\ last'.cached)
        =>
        \A i \in 1 .. Len(last'.demos) :
            PairIn(files', last'.demos[i].demo_id,
                   STATUS_FOLDERS[last'.demos[i].status])
      ]_vars

\* no client is between the first and the last step of its action
AllActionsOver == \A c \in Clients : inflight[c].pc \in {"idle", "answered"}

\* C30: when the actions of the two clients, which may overlap, are over, the
\* two files of every demo are together in one folder: the destination of an
\* action that answered success and moved them, or, when no such action
\* moved them, the folder they were in from the start
C30_PairEndsTogether ==
    AllActionsOver =>
        \A d \in Demos :
            /\ ~Split(files, d)
            /\ \/ \E c \in Clients :
                     /\ inflight[c].pc = "answered"
                     /\ inflight[c].status = 200
                     /\ inflight[c].moved = d
                     /\ PairIn(files, d, inflight[c].dst)
               \/ /\ files[AudioOf(d)].mtime = 0
                  /\ files[MetaOf(d)].mtime = 0
                  /\ \A c \in Clients :
                        ~(inflight[c].pc = "answered" /\ inflight[c].status = 200
                            /\ inflight[c].moved = d)

\* a like and a reject of demo a12 overlapped: both found the pair in
\* /demos/submitted, one moved it and answered 200, the move of the other was
\* refused and it answered 500
C30_Witness ==
    /\ AllActionsOver
    /\ \E c1, c2 \in Clients :
          /\ inflight[c1].pc = "answered" /\ inflight[c2].pc = "answered"
          /\ inflight[c1].demo_id = "a12" /\ inflight[c2].demo_id = "a12"
          /\ inflight[c1].status = 200 /\ inflight[c1].moved = "a12"
          /\ inflight[c1].dst = STATUS_FOLDERS.assistant_liked
          /\ inflight[c2].status = 500
          /\ inflight[c2].dst = STATUS_FOLDERS.rejected
    /\ PairIn(files, "a12", STATUS_FOLDERS.assistant_liked)

====
